---- MODULE Spec2Model ----
(***************************************************************************)
(* Hyperion ORM runtime core: Identity Map, Change Tracker, Unit of Work   *)
(* and Transaction Manager, as state machines translated from              *)
(*   src/src/core/identity-map.ts   (IdentityMap, lines 1-231)             *)
(*   src/src/core/unit-of-work.ts   (UnitOfWork 1-457, ChangeTracker 458-) *)
(*   src/unnamed/part_004           (TransactionManager)                   *)
(***************************************************************************)
EXTENDS Integers, Sequences, FiniteSets, TLC

VARIABLES
    identityMap,      \* IdentityMap: maps, keyRegistry, the WeakMap entries, options
    heap,             \* the objects the program holds: payloads and tracker proxies
    trackedEntities,  \* ChangeTracker.trackedEntities, in Map insertion order
    entityMetadata,   \* UnitOfWork.entityMetadata: the registered kinds
    connection,       \* UnitOfWork.connection: FALSE is null
    isActive,         \* UnitOfWork.isActive
    enableChangeTracking, \* UnitOfWork.options.enableChangeTracking
    commit,           \* the commit() call in flight, or its outcome
    sqlLog,           \* the statements the last commit() sent to connection.query
    ret,              \* the last synchronous call: its name, arguments and result
    activeTransactions, \* TransactionManager.activeTransactions, in Map insertion order
    nextTransactionId,  \* TransactionManager.nextTransactionId
    calls,            \* the withTransaction() calls: where each is, and what it sent
    nextSavepointId,  \* TransactionManager.nextSavepointId
    savepointCall,    \* the savepoint call in flight, or its outcome
    session,          \* the database session behind the manager's connection
    marks,            \* per savepoint name, the work that was live when it was created
    sweep,            \* the rollbackAll() call in flight, or its outcome
    pool,             \* the pool's clients that are checked out
    helpers,          \* the withTransaction(pool, ...) helper calls
    cp,               \* ConnectionPool: isShuttingDown, its calls, its reconnection
    nested            \* a tracked entity with nested objects, and its wrapped instance

spVars == <<nextSavepointId, savepointCall>>
dbVars == <<session, marks>>
libVars == <<cp, nested>>
txVars == <<spVars, dbVars, sweep, pool, helpers, libVars>>

vars == <<identityMap, heap, trackedEntities, entityMetadata, connection,
          isActive, enableChangeTracking, commit, sqlLog, ret,
          activeTransactions, nextTransactionId, calls, txVars>>

(***************************************************************************)
(* JavaScript values.  A scalar is a token that keeps its type: "n1" is    *)
(* the number 1 and "s1" the string "1".  An id is a scalar, an object of  *)
(* named scalars in the order its keys were inserted, null or undefined.   *)
(***************************************************************************)
NumberTokens == {"n1", "n2", "n100"}

TypeOfVal(tok) == IF tok \in NumberTokens THEN "number" ELSE "string"

StringOfVal(tok) ==
    CASE tok = "n1" -> "1"
      [] tok = "n2" -> "2"
      [] tok = "n100" -> "100"
      [] tok = "s1" -> "1"
      [] OTHER -> tok

ScalarId(tok) == [t |-> "scalar", v |-> tok, f |-> <<>>]
ObjectId(pairs) == [t |-> "object", v |-> "", f |-> pairs]
NullId == [t |-> "null", v |-> "", f |-> <<>>]
UndefinedId == [t |-> "undefined", v |-> "", f |-> <<>>]

\* Object.keys(obj).sort(): the rank of a property name in code-unit order.
NameOrder == <<"email", "id", "name", "note", "role", "tenantId", "userId">>
NameRank(n) == CHOOSE i \in 1..Len(NameOrder) : NameOrder[i] = n

RECURSIVE InsertSorted(_, _)
InsertSorted(pair, sorted) ==
    IF sorted = <<>> THEN <<pair>>
    ELSE IF NameRank(pair[1]) < NameRank(Head(sorted)[1])
         THEN <<pair>> \o sorted
         ELSE <<Head(sorted)>> \o InsertSorted(pair, Tail(sorted))

RECURSIVE sortObjectKeys(_)
sortObjectKeys(pairs) ==
    IF pairs = <<>> THEN <<>>
    ELSE InsertSorted(Head(pairs), sortObjectKeys(Tail(pairs)))

InvalidId(id) == id.t \in {"null", "undefined"}

\* `${entity}:obj:${JSON.stringify(sorted)}` or `${entity}:${typeof id}:${String(id)}`
createCompositeKey(entity, id) ==
    IF id.t = "object"
    THEN [entity |-> entity, prefix |-> "obj", str |-> "", obj |-> sortObjectKeys(id.f)]
    ELSE [entity |-> entity, prefix |-> TypeOfVal(id.v), str |-> StringOfVal(id.v),
          obj |-> <<>>]

(***************************************************************************)
(* Inputs: the kinds, ids and object references the operations draw from.  *)
(***************************************************************************)
Kinds == {"User", "TenantUser"}

TenantKey == ObjectId(<< <<"tenantId", "n1">>, <<"userId", "n100">> >>)

EntityIds == { <<"User", ScalarId("n1")>>, <<"User", ScalarId("n2")>>,
               <<"TenantUser", TenantKey>> }

CompositeKeys == { createCompositeKey(e[1], e[2]) : e \in EntityIds }

MaxRefs == 3
Refs == 1..MaxRefs
NoRef == 0

\* The entities one Unit of Work handles here.  An entity can have four objects
\* at once: the payload the tracker wraps, the tracker's proxy, a later payload
\* the identity map took after the collector dropped its entry, and the
\* payload being passed in.  The objects of an entity share a region of the heap.
UowKeys == << <<"User", ScalarId("n1")>>, <<"TenantUser", TenantKey>> >>
UowIds == { UowKeys[j] : j \in 1..Len(UowKeys) }
MaxObjects == 4
HeapRefs == 1..(MaxObjects * Len(UowKeys))

Region(entity, id) ==
    IF <<entity, id>> \in UowIds
    THEN LET j == CHOOSE j \in 1..Len(UowKeys) : UowKeys[j] = <<entity, id>>
         IN  ((j - 1) * MaxObjects + 1)..(j * MaxObjects)
    ELSE HeapRefs

Props == {"id", "name", "tenantId", "userId", "role"}
Undef == "undefined"
Values == {"a", "b"}
PayloadValues == {"a"}
NoData == [p \in Props |-> Undef]
FreeObj == [kind |-> "free", target |-> NoRef, data |-> NoData]

(***************************************************************************)
(* IdentityMap.  keyRegistry maps a composite key to a WeakRef of its key  *)
(* object: "none" (no entry), "live", or "dead" (the key object was        *)
(* collected and deref() gives undefined).  weak is the WeakMap of the     *)
(* kind, indexed by the key object registered under the composite key.     *)
(***************************************************************************)
NewIdentityMap(enableWeakRefs) ==
    [maps |-> {}, keyRegistry |-> [k \in CompositeKeys |-> "none"],
     weak |-> [k \in CompositeKeys |-> NoRef], enableWeakRefs |-> enableWeakRefs]

IMResult(im, val, ok, err) == [im |-> im, val |-> val, ok |-> ok, err |-> err]

InvalidIdError == "Invalid ID"

\* getKeyObject: the registry entry is dropped when its WeakRef is dead.
getKeyObject(im, entity, id) ==
    LET ck == createCompositeKey(entity, id) IN
    IF im.keyRegistry[ck] = "dead"
    THEN [im |-> [im EXCEPT !.keyRegistry[ck] = "none"], found |-> FALSE]
    ELSE [im |-> im, found |-> im.keyRegistry[ck] = "live"]

IdentityMapGet(im, entity, id) ==
    IF entity \notin im.maps THEN IMResult(im, NoRef, FALSE, "")
    ELSE IF InvalidId(id) THEN IMResult(im, NoRef, FALSE, InvalidIdError)
    ELSE LET k == getKeyObject(im, entity, id) IN
         IF ~k.found THEN IMResult(k.im, NoRef, FALSE, "")
         ELSE IMResult(k.im, k.im.weak[createCompositeKey(entity, id)], TRUE, "")

\* set(): a fresh key object is registered only when enableWeakRefs is on; an
\* unregistered key object is unreachable, and so is the entry stored under it.
IdentityMapSetStores(im, ck, instance) ==
    IF im.enableWeakRefs
    THEN [im EXCEPT !.keyRegistry[ck] = "live", !.weak[ck] = instance]
    ELSE im

IdentityMapSet(im, entity, id, instance) ==
    LET withMap == [im EXCEPT !.maps = @ \cup {entity}] IN
    IF InvalidId(id) THEN IMResult(withMap, NoRef, FALSE, InvalidIdError)
    ELSE LET k == getKeyObject(withMap, entity, id)
             ck == createCompositeKey(entity, id) IN
         IF k.found /\ k.im.weak[ck] # NoRef
         THEN IMResult(k.im, k.im.weak[ck], TRUE, "")
         ELSE IMResult(IdentityMapSetStores(k.im, ck, instance), instance, TRUE, "")

IdentityMapDelete(im, entity, id) ==
    IF entity \notin im.maps THEN IMResult(im, NoRef, FALSE, "")
    ELSE IF InvalidId(id) THEN IMResult(im, NoRef, FALSE, InvalidIdError)
    ELSE LET k == getKeyObject(im, entity, id)
             ck == createCompositeKey(entity, id) IN
         IF ~k.found THEN IMResult(k.im, NoRef, FALSE, "")
         ELSE IMResult([k.im EXCEPT !.weak[ck] = NoRef, !.keyRegistry[ck] = "none"],
                       NoRef, k.im.weak[ck] # NoRef, "")

IdentityMapHas(im, entity, id) ==
    IF entity \notin im.maps THEN IMResult(im, NoRef, FALSE, "")
    ELSE IF InvalidId(id) THEN IMResult(im, NoRef, FALSE, InvalidIdError)
    ELSE LET k == getKeyObject(im, entity, id) IN
         IMResult(k.im, NoRef,
                  k.found /\ k.im.weak[createCompositeKey(entity, id)] # NoRef, "")

IdentityMapClearEntity(im, entity) ==
    [im EXCEPT !.maps = @ \ {entity},
               !.keyRegistry = [k \in CompositeKeys |->
                                   IF k.entity = entity THEN "none" ELSE @[k]],
               !.weak = [k \in CompositeKeys |->
                            IF k.entity = entity THEN NoRef ELSE @[k]]]

IdentityMapClear(im) ==
    [im EXCEPT !.maps = {},
               !.keyRegistry = [k \in CompositeKeys |-> "none"],
               !.weak = [k \in CompositeKeys |-> NoRef]]

\* getStats(): counts the live WeakRefs, then cleanupDeadRefs().
IdentityMapTotalKeys(im) == Cardinality({k \in CompositeKeys : im.keyRegistry[k] = "live"})

cleanupDeadRefs(im) ==
    IF ~im.enableWeakRefs THEN im
    ELSE [im EXCEPT !.keyRegistry = [k \in CompositeKeys |->
                                        IF @[k] = "dead" THEN "none" ELSE @[k]]]

\* The collector: nothing but the WeakRef and the WeakMap refers to a key object.
CollectKeyObject(im, ck) ==
    [im EXCEPT !.keyRegistry[ck] = "dead", !.weak[ck] = NoRef]

(***************************************************************************)
(* The record of the last synchronous call that hands something back: what *)
(* the caller passed and what it got (val: the returned reference, ok: a   *)
(* boolean result, err: the message of the Error thrown, "" when none).    *)
(* A call that returns nothing leaves NoCall.                              *)
(***************************************************************************)
Call(op, entity, id, val, ok, err) ==
    [op |-> op, entity |-> entity, id |-> id, val |-> val, ok |-> ok, err |-> err]

NoCall == Call("", "", UndefinedId, NoRef, FALSE, "")

NoCommit == [pc |-> "idle", queue |-> <<>>, changes |-> <<>>, created |-> 0,
             updated |-> 0, deleted |-> 0, error |-> "", thrown |-> "",
             mapped |-> <<>>]

\* What the identity map answers for a key now, without the lookup's clean-up.
Stored(im, entity, id) == IdentityMapGet(im, entity, id).val

(***************************************************************************)
(* TransactionManager (part_004).  A withTransaction() call is a record:   *)
(* its options, the attempt it is in (retries), the transaction of that    *)
(* attempt, where the attempt is (pc), the statements the attempt sent to  *)
(* connection.query with what the driver answered, how the callback        *)
(* settled, and how the call settled.                                      *)
(***************************************************************************)
\* An option left out is Unset; maxRetries, a number, is <<n>> when given.
Unset == "unset"
NoNumber == <<>>

TxOptions(isolationLevel, readOnly, deferrable, retryOnDeadlock, maxRetries) ==
    [isolationLevel |-> isolationLevel, readOnly |-> readOnly, deferrable |-> deferrable,
     retryOnDeadlock |-> retryOnDeadlock, maxRetries |-> maxRetries,
     timeout |-> FALSE]

DefaultOptions == TxOptions(Unset, FALSE, FALSE, FALSE, NoNumber)

\* options.timeout given: the timer of lines 234-240 is set.
Timed(options) == [options EXCEPT !.timeout = TRUE]

\* The options a caller passes here.
OptionInputs ==
    { DefaultOptions,
      TxOptions("SERIALIZABLE", FALSE, FALSE, FALSE, NoNumber),
      TxOptions(Unset, TRUE, FALSE, FALSE, NoNumber),
      TxOptions(Unset, FALSE, TRUE, FALSE, NoNumber),
      TxOptions("SERIALIZABLE", TRUE, TRUE, FALSE, NoNumber),
      TxOptions(Unset, FALSE, FALSE, TRUE, <<1>>),
      TxOptions(Unset, FALSE, FALSE, FALSE, <<1>>),
      TxOptions(Unset, FALSE, FALSE, TRUE, NoNumber),
      Timed(TxOptions(Unset, FALSE, FALSE, TRUE, <<1>>)) }

MaxCalls == 2
CallIds == 1..MaxCalls

IdleCall == [pc |-> "idle", options |-> DefaultOptions, retries |-> 0, tx |-> 0,
             level |-> 0, queue |-> <<>>, log |-> <<>>, fn |-> "", fnError |-> "",
             error |-> "", result |-> "", thrown |-> "",
             parent |-> 0, timer |-> "", fnRuns |-> 0,
             rollbacks |-> 0, resultRetries |-> 0]

\* Names a caller gives a savepoint, and the names the manager makes.
GivenNames == { <<"s">> }
MaxSavepointId == 2

\* `sp_${this.nextSavepointId++}`: line 105.
GeneratedName(n) == <<"sp", n>>
MaxSavepoints == 3

\* No savepoint call yet.
NoSavepointCall == [kind |-> "", pc |-> "idle", tx |-> 0, name |-> <<>>, index |-> 0,
                    sent |-> <<>>, thrown |-> "", result |-> <<>>]

\* Units of work a callback does on the connection.
MaxWork == 2

\* A session with no transaction open.
NoSession == [open |-> FALSE, live |-> {}, stack |-> <<>>, durable |-> {},
              next |-> 1]

SavepointNames == GivenNames \cup { GeneratedName(n) : n \in 1..MaxSavepointId }

\* No rollbackAll() call yet.
NoSweep == [pc |-> "idle", queue |-> <<>>, snapshot |-> <<>>, log |-> <<>>,
            events |-> <<>>, thrown |-> ""]

MaxHelpers == 2
HelperIds == 1..MaxHelpers

\* The clients of the pool (config.max).
MaxPool == 2
Clients == 1..MaxPool

IdleHelper == [pc |-> "idle", parent |-> 0, client |-> 0, level |-> 0,
               queue |-> <<>>, log |-> <<>>, fn |-> "", error |-> "", thrown |-> ""]

\* The getConnection() calls and the transaction() calls made on the pool.
MaxLeases == 2
LeaseIds == 1..MaxLeases
MaxPoolTx == 1
PoolTxIds == 1..MaxPoolTx

\* release() and disconnect() calls counted on one PooledConnection.
MaxReleaseCalls == 2

\* A PooledConnection: lines 666-674.  handedBack counts client.release().
NoLease == [pc |-> "idle", client |-> 0, released |-> FALSE, handedBack |-> 0,
            releaseCalls |-> 0, last |-> "", reached |-> 0, thrown |-> ""]

\* A transaction() call: the statements that reached the driver (log), the
\* ones connection.query was called with (tried), and its PooledConnection.
NoPoolTx == [pc |-> "idle", isolationLevel |-> Unset, lease |-> NoLease,
             log |-> <<>>, tried |-> <<>>, fn |-> "", error |-> "", thrown |-> "",
             result |-> ""]

\* config.reconnection as the caller gives it: a field the object does not
\* have is Missing, and with given FALSE the config has no reconnection key.
Missing == <<>>
Given(v) == <<v>>

ReconnectionGiven ==
    [given : {TRUE}, enabled : {Given(TRUE), Given(FALSE)},
     maxRetries : {Missing, Given(0), Given(1), Given(2)},
     retryDelay : {Missing, Given(1), Given(2)},
     exponentialBackoff : {Missing, Given(TRUE), Given(FALSE)}]

NoReconnectionKey ==
    [given |-> FALSE, enabled |-> Missing, maxRetries |-> Missing,
     retryDelay |-> Missing, exponentialBackoff |-> Missing]

ReconnectionInputs == {NoReconnectionKey} \cup ReconnectionGiven

\* The defaults of lines 331-334.
DefaultMaxRetries == 5
DefaultRetryDelay == 1000
DefaultReconnection ==
    [given |-> TRUE, enabled |-> Given(TRUE), maxRetries |-> Given(DefaultMaxRetries),
     retryDelay |-> Given(DefaultRetryDelay), exponentialBackoff |-> Given(TRUE)]

\* The object of lines 330-336: a field the caller gave, or its default.
MergedReconnection(raw) ==
    [f \in DOMAIN DefaultReconnection |->
        IF f = "given" THEN TRUE
        ELSE IF raw[f] = Missing THEN DefaultReconnection[f] ELSE raw[f]]

\* this.config.reconnection after the constructor (lines 306-348): the closing
\* ...config of line 347 puts config.reconnection itself in the place of the
\* merged object of lines 330-336 when the caller gave one.
ConfigReconnection(raw) == IF raw.given THEN raw ELSE MergedReconnection(raw)

\* Health checks one reconnection sequence can make here.
MaxAttempts == 7

NoReconnection == [pc |-> "idle", retryCount |-> 0, checks |-> 0, delays |-> <<>>,
                   events |-> <<>>]

\* new ConnectionPool(config): lines 301-368.
NewPool(raw) ==
    [isShuttingDown |-> FALSE, closing |-> "idle", forced |-> FALSE,
     raw |-> raw, reconnection |-> ConfigReconnection(raw),
     leases |-> [g \in LeaseIds |-> NoLease],
     txs |-> [t \in PoolTxIds |-> NoPoolTx],
     recon |-> NoReconnection, errors |-> 0]

NoNested == [tracked |-> FALSE]

NoManager ==
    /\ activeTransactions = <<>>
    /\ nextTransactionId = 1
    /\ calls = [c \in CallIds |-> IdleCall]
    /\ nextSavepointId = 1
    /\ savepointCall = NoSavepointCall
    /\ session = NoSession
    /\ marks = [at |-> [n \in SavepointNames |-> {}], undone |-> {}]
    /\ sweep = NoSweep
    /\ pool = {}
    /\ helpers = [h \in HelperIds |-> IdleHelper]

NoTransactions ==
    /\ NoManager
    /\ cp = NewPool(NoReconnectionKey)
    /\ nested = NoNested

(***************************************************************************)
(* The Identity Map on its own: every public operation, and the collector. *)
(***************************************************************************)
IMInputIds == EntityIds \cup { <<"User", NullId>> }

UowIdle == /\ UNCHANGED <<heap, trackedEntities, entityMetadata, connection,
                          isActive, enableChangeTracking, activeTransactions,
                   nextTransactionId, calls, txVars, commit, sqlLog>>

IMInit ==
    /\ \E w \in BOOLEAN : identityMap = NewIdentityMap(w)
    /\ heap = [r \in HeapRefs |-> FreeObj]
    /\ trackedEntities = <<>>
    /\ entityMetadata = {}
    /\ connection = FALSE
    /\ isActive = TRUE
    /\ enableChangeTracking = TRUE
    /\ commit = NoCommit
    /\ sqlLog = <<>>
    /\ ret = NoCall
    /\ NoTransactions

IMSetOp(entity, id, instance) ==
    LET r == IdentityMapSet(identityMap, entity, id, instance) IN
    /\ identityMap' = r.im
    /\ ret' = Call("set", entity, id, r.val, r.ok, r.err)
    /\ UowIdle

IMGetOp(entity, id) ==
    LET r == IdentityMapGet(identityMap, entity, id) IN
    /\ identityMap' = r.im
    /\ ret' = Call("get", entity, id, r.val, r.ok, r.err)
    /\ UowIdle

IMHasOp(entity, id) ==
    LET r == IdentityMapHas(identityMap, entity, id) IN
    /\ identityMap' = r.im
    /\ ret' = Call("has", entity, id, NoRef, r.ok, r.err)
    /\ UowIdle

IMDeleteOp(entity, id) ==
    LET r == IdentityMapDelete(identityMap, entity, id) IN
    /\ identityMap' = r.im
    /\ ret' = Call("delete", entity, id, NoRef, r.ok, r.err)
    /\ UowIdle

IMClearEntityOp(entity) ==
    /\ identityMap' = IdentityMapClearEntity(identityMap, entity)
    /\ ret' = Call("clearEntity", entity, UndefinedId, NoRef, FALSE, "")
    /\ UowIdle

IMClearOp ==
    /\ identityMap' = IdentityMapClear(identityMap)
    /\ ret' = Call("clear", "", UndefinedId, NoRef, FALSE, "")
    /\ UowIdle

\* getStats() returns {entities, totalKeys}; val carries totalKeys.
IMGetStatsOp ==
    /\ identityMap' = cleanupDeadRefs(identityMap)
    /\ ret' = Call("getStats", "", UndefinedId, IdentityMapTotalKeys(identityMap),
                   FALSE, "")
    /\ UowIdle

\* Between two jobs the collector may take any key object: only a WeakRef and
\* a WeakMap key slot refer to it.
IMCollect(ck) ==
    /\ identityMap.keyRegistry[ck] = "live"
    /\ identityMap' = CollectKeyObject(identityMap, ck)
    /\ UNCHANGED ret
    /\ UowIdle

IMNext ==
    \/ \E e \in IMInputIds, x \in Refs : IMSetOp(e[1], e[2], x)
    \/ \E e \in IMInputIds : IMGetOp(e[1], e[2])
    \/ \E e \in IMInputIds : IMHasOp(e[1], e[2])
    \/ \E e \in IMInputIds : IMDeleteOp(e[1], e[2])
    \/ \E k \in Kinds : IMClearEntityOp(k)
    \/ IMClearOp
    \/ IMGetStatsOp
    \/ \E ck \in CompositeKeys : IMCollect(ck)

SpecIM == IMInit /\ [][IMNext]_vars

(***************************************************************************)
(* The heap.  A payload is an object with data; a tracker proxy wraps its  *)
(* target.  A new object takes the lowest free reference, and an object    *)
(* nothing refers to any more is freed.                                    *)
(***************************************************************************)
Alloc(h, region) == CHOOSE r \in region : h[r].kind = "free" /\ \A q \in region :
                                              h[q].kind = "free" => r <= q

NewObject(h, region, data) ==
    [h EXCEPT ![Alloc(h, region)] = [kind |-> "object", target |-> NoRef, data |-> data]]

NewProxy(h, region, target) ==
    [h EXCEPT ![Alloc(h, region)] = [kind |-> "proxy", target |-> target, data |-> NoData]]

\* Reads through a tracker proxy reach its target (the get trap is Reflect.get).
DataOf(h, ref) == IF h[ref].kind = "proxy" THEN h[h[ref].target].data ELSE h[ref].data

Held(h, im, te) ==
    LET direct == ({im.weak[k] : k \in CompositeKeys}
                   \cup {te[i].data : i \in 1..Len(te)}
                   \cup {te[i].proxy : i \in 1..Len(te)}) \cap HeapRefs
    IN  direct \cup ({h[q].target : q \in direct} \cap HeapRefs)

Sweep(h, im, te) ==
    [r \in HeapRefs |-> IF r \in Held(h, im, te) THEN h[r] ELSE FreeObj]

(***************************************************************************)
(* ChangeTracker (unit-of-work.ts, from line 458).  trackedEntities is a   *)
(* Map keyed by createKey(entity, id); its iteration order is the order    *)
(* of insertion, so it is a sequence of TrackedEntity records.             *)
(***************************************************************************)
\* `${entity}:${JSON.stringify(id)}`: the type and the key order of id are kept.
createKey(entity, id) == [entity |-> entity, json |-> id]

TrackedIndex(te, key) ==
    IF \E i \in 1..Len(te) : te[i].key = key
    THEN CHOOSE i \in 1..Len(te) : te[i].key = key
    ELSE 0

RemoveAt(seq, i) == SubSeq(seq, 1, i - 1) \o SubSeq(seq, i + 1, Len(seq))

\* Set.add on an insertion-ordered Set.
SetAdd(seq, x) == IF \E i \in 1..Len(seq) : seq[i] = x THEN seq ELSE Append(seq, x)

TrackedEntity(entity, id, data, proxy, originalData, isNew) ==
    [key |-> createKey(entity, id), entity |-> entity, id |-> id, data |-> data,
     proxy |-> proxy, originalData |-> originalData, isNew |-> isNew,
     isDeleted |-> FALSE, changedFields |-> <<>>]

trackAgain(te, h, entity, id, data, isNew) ==
    LET i == TrackedIndex(te, createKey(entity, id)) IN
    IF i # 0
    THEN [te |-> [te EXCEPT ![i].isNew = isNew, ![i].changedFields = <<>>],
          heap |-> h, val |-> te[i].proxy]
    ELSE LET proxy == Alloc(h, Region(entity, id)) IN
         [te |-> Append(te, TrackedEntity(entity, id, data, proxy,
                                          DataOf(h, data), isNew)),
          heap |-> NewProxy(h, Region(entity, id), data), val |-> proxy]

\* track(): the proxy already issued for the key, or a new entry and proxy.
track(te, h, entity, id, data, isNew) ==
    LET i == TrackedIndex(te, createKey(entity, id)) IN
    IF i # 0 THEN [te |-> te, heap |-> h, val |-> te[i].proxy]
    ELSE LET proxy == Alloc(h, Region(entity, id)) IN
         [te |-> Append(te, TrackedEntity(entity, id, data, proxy,
                                          DataOf(h, data), isNew)),
          heap |-> NewProxy(h, Region(entity, id), data), val |-> proxy]

NotTrackedError == "is not being tracked"

markDeleted(te, entity, id) ==
    LET i == TrackedIndex(te, createKey(entity, id)) IN
    IF i = 0 THEN [te |-> te, err |-> NotTrackedError]
    ELSE [te |-> [te EXCEPT ![i].isDeleted = TRUE], err |-> ""]

ChangeTypeOfNewFirst(t) ==
    IF t.isNew THEN "created"
    ELSE IF t.isDeleted THEN "deleted"
    ELSE IF Len(t.changedFields) > 0 THEN "updated"
    ELSE "none"

ChangeTypeOf(t) ==
    IF t.isDeleted THEN "deleted"
    ELSE IF t.isNew THEN "created"
    ELSE IF Len(t.changedFields) > 0 THEN "updated"
    ELSE "none"

EntityChange(t) ==
    [entity |-> t.entity, id |-> t.id, type |-> ChangeTypeOf(t),
     currentData |-> IF t.isDeleted THEN NoRef ELSE t.data,
     changedFields |-> IF ChangeTypeOf(t) = "updated" THEN t.changedFields ELSE <<>>]

RECURSIVE getChanges(_)
getChanges(te) ==
    IF te = <<>> THEN <<>>
    ELSE (IF ChangeTypeOf(Head(te)) = "none" THEN <<>> ELSE <<EntityChange(Head(te))>>)
         \o getChanges(Tail(te))

\* resetChanges(): a new baseline; a deleted entity leaves the tracker.
resetChangesKeepsNew(te, h, entity, id) ==
    LET i == TrackedIndex(te, createKey(entity, id)) IN
    IF i = 0 THEN te
    ELSE IF te[i].isDeleted THEN RemoveAt(te, i)
    ELSE [te EXCEPT ![i].originalData = DataOf(h, te[i].data),
                    ![i].changedFields = <<>>]

resetChangesKeepsDeleted(te, h, entity, id) ==
    LET i == TrackedIndex(te, createKey(entity, id)) IN
    IF i = 0 THEN te
    ELSE [te EXCEPT ![i].originalData = DataOf(h, te[i].data),
                    ![i].changedFields = <<>>,
                    ![i].isNew = FALSE]

resetChanges(te, h, entity, id) ==
    LET i == TrackedIndex(te, createKey(entity, id)) IN
    IF i = 0 THEN te
    ELSE IF te[i].isDeleted THEN RemoveAt(te, i)
    ELSE [te EXCEPT ![i].originalData = DataOf(h, te[i].data),
                    ![i].changedFields = <<>>,
                    ![i].isNew = FALSE]

ProxySetAlwaysMarks(oldValue, value) == TRUE

\* The set trap of createProxy: a changed value marks the property.
ProxySetMarks(oldValue, value) == oldValue # value

proxySetClearsBaseline(te, h, i, prop, value) ==
    LET target == te[i].data IN
    [te |-> IF value = te[i].originalData[prop]
            THEN [te EXCEPT ![i].changedFields = SelectSeq(@, LAMBDA f : f # prop)]
            ELSE IF ProxySetMarks(h[target].data[prop], value)
            THEN [te EXCEPT ![i].changedFields = SetAdd(@, prop)]
            ELSE te,
     heap |-> [h EXCEPT ![target].data[prop] = value]]

proxySet(te, h, i, prop, value) ==
    LET target == te[i].data IN
    [te |-> IF ProxySetMarks(h[target].data[prop], value)
            THEN [te EXCEPT ![i].changedFields = SetAdd(@, prop)]
            ELSE te,
     heap |-> [h EXCEPT ![target].data[prop] = value]]

\* The deleteProperty trap of createProxy: lines 739-744.
proxyDelete(te, h, i, prop) ==
    [te |-> [te EXCEPT ![i].changedFields = SetAdd(@, prop)],
     heap |-> [h EXCEPT ![te[i].data].data[prop] = Undef]]

\* hasChanges(): lines 588-595.
hasChanges(te, entity, id) ==
    LET i == TrackedIndex(te, createKey(entity, id)) IN
    IF i = 0 THEN FALSE
    ELSE te[i].isNew \/ te[i].isDeleted \/ Len(te[i].changedFields) > 0

\* untrack(): lines 628-636.
untrack(te, entity, id) ==
    LET i == TrackedIndex(te, createKey(entity, id)) IN
    IF i = 0 THEN te ELSE RemoveAt(te, i)

\* getStats(): lines 648-679.
CountOfType(te, type) == Cardinality({ i \in 1..Len(te) : ChangeTypeOf(te[i]) = type })

getStats(te) ==
    [total |-> Len(te), created |-> CountOfType(te, "created"),
     updated |-> CountOfType(te, "updated"), deleted |-> CountOfType(te, "deleted"),
     unchanged |-> CountOfType(te, "none")]

(***************************************************************************)
(* EntityMetadata, as the tests register it (unit-of-work.test.ts 25-35,   *)
(* 242-251): the table, the primary key (an array for a composite key)     *)
(* and the property -> column Map in insertion order.                      *)
(***************************************************************************)
MetadataOf(entity) ==
    IF entity = "User"
    THEN [entity |-> "User", table |-> "users", composite |-> FALSE,
          primaryKey |-> <<"id">>,
          columns |-> << <<"id", "id">>, <<"name", "name">> >>]
    ELSE [entity |-> "TenantUser", table |-> "tenant_users", composite |-> TRUE,
          primaryKey |-> <<"tenantId", "userId">>,
          columns |-> << <<"tenantId", "tenant_id">>, <<"userId", "user_id">>,
                         <<"role", "role">> >>]

\* Map.get on the columns: the column, or undefined.
ColumnOf(columns, prop) ==
    IF \E i \in 1..Len(columns) : columns[i][1] = prop
    THEN columns[CHOOSE i \in 1..Len(columns) : columns[i][1] = prop][2]
    ELSE Undef

\* (id as any)[key] on an object id.
IdField(id, key) ==
    IF \E i \in 1..Len(id.f) : id.f[i][1] = key
    THEN id.f[CHOOSE i \in 1..Len(id.f) : id.f[i][1] = key][2]
    ELSE Undef

RECURSIVE ExtractPairs(_, _)
ExtractPairs(data, keys) ==
    IF keys = <<>> THEN <<>>
    ELSE << <<Head(keys), data[Head(keys)]>> >> \o ExtractPairs(data, Tail(keys))

extractId(data, metadata) ==
    IF metadata.composite THEN ObjectId(ExtractPairs(data, metadata.primaryKey))
    ELSE IF data[metadata.primaryKey[1]] = Undef THEN UndefinedId
    ELSE ScalarId(data[metadata.primaryKey[1]])

\* The payload a caller builds for an entity: its key properties and one value.
WritableProp(entity) == IF entity = "User" THEN "name" ELSE "role"

Payload(entity, id, value) ==
    [p \in Props |->
        IF p = WritableProp(entity) THEN value
        ELSE IF entity = "User" /\ p = "id" THEN id.v
        ELSE IF entity = "TenantUser" /\ p \in {"tenantId", "userId"} THEN IdField(id, p)
        ELSE Undef]

(***************************************************************************)
(* UnitOfWork: the synchronous operations, as functions of the identity    *)
(* map, the heap and the tracker.                                          *)
(***************************************************************************)
UowResult(im, h, te, val, err) == [im |-> im, heap |-> h, te |-> te, val |-> val, err |-> err]

ClosedError == "Unit of Work has been closed"
NotRegisteredError == "is not registered"
NotLoadedError == "is not loaded"
NoConnectionError == "No database connection set"

\* get(): lines 68-88.
uowGet(im, h, te, tracking, entity, id, hasData, payload) ==
    LET g == IdentityMapGet(im, entity, id) IN
    IF g.err # "" THEN UowResult(g.im, h, te, NoRef, g.err)
    ELSE IF g.val # NoRef \/ ~hasData THEN UowResult(g.im, h, te, g.val, "")
    ELSE LET h1 == NewObject(h, Region(entity, id), payload)
             s1 == IdentityMapSet(g.im, entity, id, Alloc(h, Region(entity, id))) IN
         IF s1.err # "" THEN UowResult(s1.im, h, te, NoRef, s1.err)
         ELSE IF ~tracking THEN UowResult(s1.im, h1, te, s1.val, "")
         ELSE LET t == track(te, h1, entity, id, s1.val, FALSE)
                  d == IdentityMapDelete(s1.im, entity, id)
                  s2 == IdentityMapSet(d.im, entity, id, t.val) IN
              UowResult(s2.im, t.heap, t.te, t.val, "")

\* create(): lines 93-124, after the metadata lookup.
uowCreateOverwrites(im, h, te, tracking, entity, payload) ==
    LET id == extractId(payload, MetadataOf(entity))
        d == IdentityMapDelete(im, entity, id)
        h1 == NewObject(h, Region(entity, id), payload)
        s1 == IdentityMapSet(d.im, entity, id, Alloc(h, Region(entity, id))) IN
    UowResult(s1.im, h1, te, s1.val, s1.err)

uowCreate(im, h, te, tracking, entity, payload) ==
    LET id == extractId(payload, MetadataOf(entity))
        g == IdentityMapGet(im, entity, id) IN
    IF g.err # "" THEN UowResult(g.im, h, te, NoRef, g.err)
    ELSE IF g.val # NoRef THEN UowResult(g.im, h, te, g.val, "")
    ELSE LET h1 == NewObject(h, Region(entity, id), payload)
             s1 == IdentityMapSet(g.im, entity, id, Alloc(h, Region(entity, id))) IN
         IF s1.err # "" THEN UowResult(s1.im, h, te, NoRef, s1.err)
         ELSE IF ~tracking THEN UowResult(s1.im, h1, te, s1.val, "")
         ELSE LET t == track(te, h1, entity, id, s1.val, TRUE)
                  d == IdentityMapDelete(s1.im, entity, id)
                  s2 == IdentityMapSet(d.im, entity, id, t.val) IN
              UowResult(s2.im, t.heap, t.te, t.val, "")

\* persist(): lines 145-163, after the metadata lookup.
uowPersist(im, h, te, tracking, entity, payload) ==
    LET id == extractId(payload, MetadataOf(entity))
        h1 == NewObject(h, Region(entity, id), payload)
        s1 == IdentityMapSet(im, entity, id, Alloc(h, Region(entity, id))) IN
    IF s1.err # "" THEN UowResult(s1.im, h, te, NoRef, s1.err)
    ELSE IF ~tracking THEN UowResult(s1.im, h1, te, s1.val, "")
    ELSE LET t == track(te, h1, entity, id, s1.val, TRUE) IN
         UowResult(s1.im, t.heap, t.te, t.val, "")

uowDeleteUnloaded(im, h, te, entity, id) ==
    LET m == markDeleted(te, entity, id) IN
    UowResult(im, h, m.te, NoRef, m.err)

\* delete(): lines 129-140.
uowDelete(im, h, te, entity, id) ==
    LET has == IdentityMapHas(im, entity, id) IN
    IF has.err # "" THEN UowResult(has.im, h, te, NoRef, has.err)
    ELSE IF ~has.ok THEN UowResult(has.im, h, te, NoRef, NotLoadedError)
    ELSE LET m == markDeleted(te, entity, id) IN
         UowResult(has.im, h, m.te, NoRef, m.err)

(***************************************************************************)
(* The statements commit() builds.  A clause is <<column, n>> for          *)
(* `column = $n`; an INSERT lists its columns, with placeholders $1..$k.   *)
(***************************************************************************)
Stmt(verb, table, columns, set, where, values, change) ==
    [verb |-> verb, table |-> table, columns |-> columns, set |-> set,
     where |-> where, values |-> values, change |-> change]

Plain(verb) == Stmt(verb, "", <<>>, <<>>, <<>>, <<>>, 0)

\* The parameter an id contributes as a whole (values.push(id)).
IdParam(id) == IF id.t = "scalar" THEN id.v ELSE IF id.t = "object" THEN "[object]" ELSE Undef

\* buildWhereClause, composite key: lines 436-450.
RECURSIVE CompositeWhere(_, _, _, _)
CompositeWhere(id, columns, keys, paramIndex) ==
    IF keys = <<>> THEN [conds |-> <<>>, values |-> <<>>]
    ELSE LET column == ColumnOf(columns, Head(keys)) IN
         IF column # Undef
         THEN LET rest == CompositeWhere(id, columns, Tail(keys), paramIndex + 1) IN
              [conds |-> << <<column, paramIndex>> >> \o rest.conds,
               values |-> <<IdField(id, Head(keys))>> \o rest.values]
         ELSE CompositeWhere(id, columns, Tail(keys), paramIndex)

\* buildWhereClause: lines 428-456.
buildWhereClauseFromOne(id, metadata, startIndex) ==
    IF metadata.composite
    THEN CompositeWhere(id, metadata.columns, metadata.primaryKey, 1)
    ELSE [conds |-> << <<ColumnOf(metadata.columns, metadata.primaryKey[1]), 1>> >>,
          values |-> <<IdParam(id)>>]

buildWhereClause(id, metadata, startIndex) ==
    IF metadata.composite
    THEN CompositeWhere(id, metadata.columns, metadata.primaryKey, startIndex)
    ELSE [conds |-> << <<ColumnOf(metadata.columns, metadata.primaryKey[1]), startIndex>> >>,
          values |-> <<IdParam(id)>>]

\* executeUpdate, the SET clause: lines 374-383.
RECURSIVE SetClauses(_, _, _, _)
SetClauses(columns, fields, data, paramIndex) ==
    IF fields = <<>> THEN [set |-> <<>>, values |-> <<>>, next |-> paramIndex]
    ELSE LET column == ColumnOf(columns, Head(fields)) IN
         IF column # Undef
         THEN LET rest == SetClauses(columns, Tail(fields), data, paramIndex + 1) IN
              [set |-> << <<column, paramIndex>> >> \o rest.set,
               values |-> <<data[Head(fields)]>> \o rest.values,
               next |-> rest.next]
         ELSE SetClauses(columns, Tail(fields), data, paramIndex)

\* executeUpdate: lines 364-402.  No statement when no SET clause was built.
executeUpdate(change, data, metadata, n) ==
    LET sc == SetClauses(metadata.columns, change.changedFields, data, 1) IN
    IF Len(sc.set) = 0 THEN <<>>
    ELSE LET w == buildWhereClause(change.id, metadata, sc.next) IN
         <<Stmt("UPDATE", metadata.table, <<>>, sc.set, w.conds, sc.values \o w.values, n)>>

\* executeDelete: lines 407-423.
executeDelete(change, metadata, n) ==
    LET w == buildWhereClause(change.id, metadata, 1) IN
    <<Stmt("DELETE", metadata.table, <<>>, <<>>, w.conds, w.values, n)>>

\* executeCreate: lines 332-359.
RECURSIVE InsertColumns(_, _)
InsertColumns(columns, data) ==
    IF columns = <<>> THEN [columns |-> <<>>, values |-> <<>>]
    ELSE LET rest == InsertColumns(Tail(columns), data) IN
         IF data[Head(columns)[1]] # Undef
         THEN [columns |-> <<Head(columns)[2]>> \o rest.columns,
               values |-> <<data[Head(columns)[1]]>> \o rest.values]
         ELSE rest

executeCreate(change, data, metadata, n) ==
    LET ic == InsertColumns(metadata.columns, data) IN
    <<Stmt("INSERT", metadata.table, ic.columns, <<>>, <<>>, ic.values, n)>>

\* The statement of one change, as a sequence of zero or one statements.
StatementOf(change, h, n) ==
    LET md == MetadataOf(change.entity) IN
    CASE change.type = "deleted" -> executeDelete(change, md, n)
      [] change.type = "updated" -> executeUpdate(change, DataOf(h, change.currentData), md, n)
      [] OTHER -> executeCreate(change, DataOf(h, change.currentData), md, n)

(***************************************************************************)
(* UnitOfWork as a state machine.  One logical workflow uses it: a         *)
(* synchronous call is one step, and commit() takes one step for each      *)
(* statement it awaits.  The collector may run between any two steps.      *)
(***************************************************************************)
CommitIdle == commit.pc \in {"idle", "resolved", "rejected"}

Init ==
    /\ identityMap = NewIdentityMap(TRUE)
    /\ heap = [r \in HeapRefs |-> FreeObj]
    /\ trackedEntities = <<>>
    /\ entityMetadata = {}
    /\ connection = FALSE
    /\ isActive = TRUE
    /\ enableChangeTracking \in BOOLEAN
    /\ commit = NoCommit
    /\ sqlLog = <<>>
    /\ ret = NoCall
    /\ NoTransactions

\* A synchronous call: it starts with no commit in flight and forgets the last one.
SyncCall == /\ CommitIdle
            /\ commit' = NoCommit
            /\ sqlLog' = <<>>

Throws(op, entity, id, err) ==
    /\ ret' = Call(op, entity, id, NoRef, FALSE, err)
    /\ UNCHANGED <<identityMap, heap, trackedEntities>>

Returns(op, entity, id, r) ==
    /\ ret' = Call(op, entity, id, r.val, r.err = "", r.err)
    /\ identityMap' = r.im
    /\ trackedEntities' = r.te
    /\ heap' = Sweep(r.heap, r.im, r.te)

RegisterEntity(entity) ==
    /\ SyncCall
    /\ entityMetadata' = entityMetadata \cup {entity}
    /\ ret' = NoCall
    /\ UNCHANGED <<identityMap, heap, trackedEntities, connection, isActive,
                   enableChangeTracking, activeTransactions,
                   nextTransactionId, calls, txVars>>

SetConnection ==
    /\ SyncCall
    /\ connection' = TRUE
    /\ ret' = NoCall
    /\ UNCHANGED <<identityMap, heap, trackedEntities, entityMetadata, isActive,
                   enableChangeTracking, activeTransactions,
                   nextTransactionId, calls, txVars>>

Get(entity, id, hasData, value) ==
    /\ SyncCall
    /\ IF ~isActive THEN Throws("get", entity, id, ClosedError)
       ELSE Returns("get", entity, id,
                    uowGet(identityMap, heap, trackedEntities, enableChangeTracking,
                           entity, id, hasData, Payload(entity, id, value)))
    /\ UNCHANGED <<entityMetadata, connection, isActive, enableChangeTracking, activeTransactions,
                   nextTransactionId, calls, txVars>>

Create(entity, id, value) ==
    /\ SyncCall
    /\ IF ~isActive THEN Throws("create", entity, id, ClosedError)
       ELSE IF entity \notin entityMetadata
       THEN Throws("create", entity, id, NotRegisteredError)
       ELSE Returns("create", entity, id,
                    uowCreate(identityMap, heap, trackedEntities, enableChangeTracking,
                              entity, Payload(entity, id, value)))
    /\ UNCHANGED <<entityMetadata, connection, isActive, enableChangeTracking, activeTransactions,
                   nextTransactionId, calls, txVars>>

Persist(entity, id, value) ==
    /\ SyncCall
    /\ IF ~isActive THEN Throws("persist", entity, id, ClosedError)
       ELSE IF entity \notin entityMetadata
       THEN Throws("persist", entity, id, NotRegisteredError)
       ELSE Returns("persist", entity, id,
                    uowPersist(identityMap, heap, trackedEntities, enableChangeTracking,
                               entity, Payload(entity, id, value)))
    /\ UNCHANGED <<entityMetadata, connection, isActive, enableChangeTracking, activeTransactions,
                   nextTransactionId, calls, txVars>>

Delete(entity, id) ==
    /\ SyncCall
    /\ IF ~isActive THEN Throws("delete", entity, id, ClosedError)
       ELSE Returns("delete", entity, id,
                    uowDelete(identityMap, heap, trackedEntities, entity, id))
    /\ UNCHANGED <<entityMetadata, connection, isActive, enableChangeTracking, activeTransactions,
                   nextTransactionId, calls, txVars>>

\* The caller assigns a property through the proxy the tracker issued.
Write(entity, id, value) ==
    LET i == TrackedIndex(trackedEntities, createKey(entity, id)) IN
    /\ SyncCall
    /\ i # 0
    /\ LET w == proxySet(trackedEntities, heap, i, WritableProp(entity), value) IN
       /\ trackedEntities' = w.te
       /\ heap' = w.heap
    /\ ret' = NoCall
    /\ UNCHANGED <<identityMap, entityMetadata, connection, isActive, enableChangeTracking, activeTransactions,
                   nextTransactionId, calls, txVars>>

\* clear(): lines 257-260.
Clear ==
    /\ SyncCall
    /\ identityMap' = IdentityMapClear(identityMap)
    /\ trackedEntities' = <<>>
    /\ heap' = Sweep(heap, IdentityMapClear(identityMap), <<>>)
    /\ ret' = NoCall
    /\ UNCHANGED <<entityMetadata, connection, isActive, enableChangeTracking, activeTransactions,
                   nextTransactionId, calls, txVars>>

\* close(): lines 265-268.
Close ==
    /\ SyncCall
    /\ identityMap' = IdentityMapClear(identityMap)
    /\ trackedEntities' = <<>>
    /\ heap' = Sweep(heap, IdentityMapClear(identityMap), <<>>)
    /\ isActive' = FALSE
    /\ ret' = NoCall
    /\ UNCHANGED <<entityMetadata, connection, enableChangeTracking, activeTransactions,
                   nextTransactionId, calls, txVars>>

\* getStats(): lines 273-287; IdentityMap.getStats drops the dead WeakRefs.
GetStats ==
    /\ SyncCall
    /\ identityMap' = cleanupDeadRefs(identityMap)
    /\ ret' = Call("getStats", "", UndefinedId, IdentityMapTotalKeys(identityMap), TRUE, "")
    /\ UNCHANGED <<heap, trackedEntities, entityMetadata, connection, isActive,
                   enableChangeTracking, activeTransactions,
                   nextTransactionId, calls, txVars>>

\* The collector takes a key object of the identity map.
Collect(ck) ==
    /\ identityMap.keyRegistry[ck] = "live"
    /\ identityMap' = CollectKeyObject(identityMap, ck)
    /\ heap' = Sweep(heap, CollectKeyObject(identityMap, ck), trackedEntities)
    /\ UNCHANGED <<trackedEntities, entityMetadata, connection, isActive,
                   enableChangeTracking, activeTransactions,
                   nextTransactionId, calls, txVars, commit, sqlLog, ret>>

(***************************************************************************)
(* commit(): lines 182-252.                                                *)
(***************************************************************************)
RECURSIVE IndexesOfType(_, _, _)
IndexesOfType(changes, type, i) ==
    IF i > Len(changes) THEN <<>>
    ELSE (IF changes[i].type = type THEN <<i>> ELSE <<>>)
         \o IndexesOfType(changes, type, i + 1)

\* Deletes first, then updates, then creates (lines 210-230); a change is
\* named by its place in the array getChanges() returned.
CommitOrderAsTracked(changes) == [i \in 1..Len(changes) |-> i]

CommitOrder(changes) ==
    IndexesOfType(changes, "deleted", 1) \o IndexesOfType(changes, "updated", 1)
    \o IndexesOfType(changes, "created", 1)

\* Lines 236-242: every change is reset; a deleted entity leaves the identity map.
RECURSIVE ResetCommitted(_, _, _, _)
ResetCommitted(te, im, h, changes) ==
    IF changes = <<>> THEN [te |-> te, im |-> im]
    ELSE LET ch == Head(changes)
             te2 == resetChanges(te, h, ch.entity, ch.id)
             im2 == IF ch.type = "deleted"
                    THEN IdentityMapDelete(im, ch.entity, ch.id).im
                    ELSE im
         IN  ResetCommitted(te2, im2, h, Tail(changes))

\* Lines 235-245 run only once COMMIT has been awaited without an error.
CommitOutcomeEager(te, im, h, changes, ok) == ResetCommitted(te, im, h, changes)

CommitOutcome(te, im, h, changes, ok) ==
    IF ok THEN ResetCommitted(te, im, h, changes) ELSE [te |-> te, im |-> im]

\* The state a statement failure leaves behind it (the catch block is next).
CommitFailure(c, error) == [c EXCEPT !.pc = "rollback", !.error = error]

\* What the catch block rejects with once ROLLBACK has been awaited.
RollbackOutcome(c, rollbackOk) ==
    [c EXCEPT !.pc = "rejected", !.thrown = IF rollbackOk THEN c.error ELSE "ROLLBACK"]

Counted(c, type) ==
    CASE type = "deleted" -> [c EXCEPT !.deleted = @ + 1]
      [] type = "updated" -> [c EXCEPT !.updated = @ + 1]
      [] OTHER -> [c EXCEPT !.created = @ + 1]

Advance(c) == [c EXCEPT !.queue = Tail(@),
                        !.pc = IF Len(c.queue) = 1 THEN "commit" ELSE "work"]

UowFrame == UNCHANGED <<entityMetadata, connection, isActive, enableChangeTracking, activeTransactions,
                   nextTransactionId, calls, txVars>>

\* Lines 183-203: what commit() does before its first await.  mapped keeps, for
\* each change, what the identity map held for its key at the call.
CommitStartAlwaysBegins(active, conn, changes, im) ==
    IF ~active THEN [NoCommit EXCEPT !.pc = "rejected", !.thrown = ClosedError]
    ELSE IF ~conn THEN [NoCommit EXCEPT !.pc = "rejected", !.thrown = NoConnectionError]
    ELSE [NoCommit EXCEPT !.pc = "begin", !.changes = changes,
                          !.queue = CommitOrder(changes),
                          !.mapped = [i \in 1..Len(changes) |->
                                         Stored(im, changes[i].entity, changes[i].id)]]

CommitStartWhenClosed(active, conn, changes, im) ==
    IF ~conn THEN [NoCommit EXCEPT !.pc = "rejected", !.thrown = NoConnectionError]
    ELSE IF changes = <<>> THEN [NoCommit EXCEPT !.pc = "resolved"]
    ELSE [NoCommit EXCEPT !.pc = "begin", !.changes = changes,
                          !.queue = CommitOrder(changes),
                          !.mapped = [i \in 1..Len(changes) |->
                                         Stored(im, changes[i].entity, changes[i].id)]]

CommitStart(active, conn, changes, im) ==
    IF ~active THEN [NoCommit EXCEPT !.pc = "rejected", !.thrown = ClosedError]
    ELSE IF ~conn THEN [NoCommit EXCEPT !.pc = "rejected", !.thrown = NoConnectionError]
    ELSE IF changes = <<>> THEN [NoCommit EXCEPT !.pc = "resolved"]
    ELSE [NoCommit EXCEPT !.pc = "begin", !.changes = changes,
                          !.queue = CommitOrder(changes),
                          !.mapped = [i \in 1..Len(changes) |->
                                         Stored(im, changes[i].entity, changes[i].id)]]

CommitCall ==
    /\ CommitIdle
    /\ sqlLog' = <<>>
    /\ ret' = Call("commit", "", UndefinedId, NoRef, TRUE, "")
    /\ commit' = CommitStart(isActive, connection, getChanges(trackedEntities), identityMap)
    /\ UNCHANGED <<identityMap, heap, trackedEntities>>
    /\ UowFrame

CommitBegin ==
    /\ commit.pc = "begin"
    /\ sqlLog' = Append(sqlLog, Plain("BEGIN"))
    /\ \E ok \in BOOLEAN :
         commit' = IF ok
                   THEN [commit EXCEPT !.pc = IF commit.queue = <<>> THEN "commit"
                                                ELSE "work"]
                   ELSE CommitFailure(commit, "BEGIN")
    /\ UNCHANGED <<identityMap, heap, trackedEntities, ret>>
    /\ UowFrame

CommitWork ==
    /\ commit.pc = "work"
    /\ LET n == Head(commit.queue)
           ch == commit.changes[n]
       IN  IF ch.entity \notin entityMetadata
           THEN /\ commit' = CommitFailure(commit, "No metadata")
                /\ UNCHANGED sqlLog
           ELSE LET stmts == StatementOf(ch, heap, n) IN
                IF stmts = <<>>
                THEN /\ commit' = Advance(Counted(commit, ch.type))
                     /\ UNCHANGED sqlLog
                ELSE /\ sqlLog' = sqlLog \o stmts
                     /\ \E ok \in BOOLEAN :
                          commit' = IF ok THEN Advance(Counted(commit, ch.type))
                                    ELSE CommitFailure(commit, stmts[1].verb)
    /\ UNCHANGED <<identityMap, heap, trackedEntities, ret>>
    /\ UowFrame

CommitEnd ==
    /\ commit.pc = "commit"
    /\ sqlLog' = Append(sqlLog, Plain("COMMIT"))
    /\ \E ok \in BOOLEAN :
         LET r == CommitOutcome(trackedEntities, identityMap, heap, commit.changes, ok) IN
         /\ commit' = IF ok THEN [commit EXCEPT !.pc = "resolved"]
                      ELSE CommitFailure(commit, "COMMIT")
         /\ trackedEntities' = r.te
         /\ identityMap' = r.im
         /\ heap' = IF ok THEN Sweep(heap, r.im, r.te) ELSE heap
    /\ UNCHANGED ret
    /\ UowFrame

CommitRollback ==
    /\ commit.pc = "rollback"
    /\ sqlLog' = Append(sqlLog, Plain("ROLLBACK"))
    /\ \E ok \in BOOLEAN : commit' = RollbackOutcome(commit, ok)
    /\ UNCHANGED <<identityMap, heap, trackedEntities, ret>>
    /\ UowFrame

\* One entity, every operation of the Unit of Work, and the collector.
OneId == { UowKeys[1] }

Next ==
    \/ \E e \in OneId : RegisterEntity(e[1])
    \/ SetConnection
    \/ \E e \in OneId, d \in BOOLEAN, v \in PayloadValues : Get(e[1], e[2], d, v)
    \/ \E e \in OneId, v \in PayloadValues : Create(e[1], e[2], v)
    \/ \E e \in OneId, v \in PayloadValues : Persist(e[1], e[2], v)
    \/ \E e \in OneId : Delete(e[1], e[2])
    \/ \E e \in OneId, v \in Values : Write(e[1], e[2], v)
    \/ Clear
    \/ Close
    \/ GetStats
    \/ \E e \in OneId : Collect(createCompositeKey(e[1], e[2]))
    \/ CommitCall
    \/ CommitBegin
    \/ CommitWork
    \/ CommitEnd
    \/ CommitRollback

Spec == Init /\ [][Next]_vars

(***************************************************************************)
(* A batch: a Unit of Work that was set up (both kinds registered, a       *)
(* connection set) loads, creates, changes and deletes two entities and    *)
(* commits them.                                                           *)
(***************************************************************************)
BatchInit ==
    /\ identityMap = NewIdentityMap(TRUE)
    /\ heap = [r \in HeapRefs |-> FreeObj]
    /\ trackedEntities = <<>>
    /\ entityMetadata = Kinds
    /\ connection = TRUE
    /\ isActive = TRUE
    /\ enableChangeTracking = TRUE
    /\ commit = NoCommit
    /\ sqlLog = <<>>
    /\ ret = NoCall
    /\ NoTransactions

BatchNext ==
    \/ \E e \in UowIds, v \in PayloadValues : Get(e[1], e[2], TRUE, v)
    \/ \E e \in UowIds, v \in PayloadValues : Create(e[1], e[2], v)
    \/ \E e \in UowIds : Delete(e[1], e[2])
    \/ \E e \in UowIds, v \in Values : Write(e[1], e[2], v)
    \/ CommitCall
    \/ CommitBegin
    \/ CommitWork
    \/ CommitEnd
    \/ CommitRollback

SpecBatch == BatchInit /\ [][BatchNext]_vars

(***************************************************************************)
(* executeUpdate on its own: a change of type updated, for each kind and   *)
(* each list of changed properties (properties without a column too), is   *)
(* turned into its statement.                                              *)
(***************************************************************************)
MaxFields == 3

RECURSIVE FieldLists(_)
FieldLists(n) ==
    IF n = 0 THEN { <<>> }
    ELSE FieldLists(n - 1) \cup
         { Append(fl, p) : fl \in { l \in FieldLists(n - 1) : Len(l) = n - 1 },
                           p \in Props } 

NoRepeat(seq) == \A i, j \in 1..Len(seq) : seq[i] = seq[j] => i = j

\* Current values: the key properties no longer hold the values of the id.
SqlData == [id |-> "n2", name |-> "a", tenantId |-> "n2", userId |-> "n100", role |-> "b"]

SqlIdOf(entity) == IF entity = "User" THEN ScalarId("n1") ELSE TenantKey

SqlInit ==
    /\ identityMap = NewIdentityMap(TRUE)
    /\ heap = [r \in HeapRefs |-> IF r = 1 THEN [kind |-> "object", target |-> NoRef,
                                                 data |-> SqlData]
                                  ELSE FreeObj]
    /\ trackedEntities = <<>>
    /\ entityMetadata = Kinds
    /\ connection = TRUE
    /\ isActive = TRUE
    /\ enableChangeTracking = TRUE
    /\ \E entity \in Kinds, fl \in FieldLists(MaxFields) :
         /\ fl # <<>>
         /\ NoRepeat(fl)
         /\ commit = [NoCommit EXCEPT !.changes =
                         << [entity |-> entity, id |-> SqlIdOf(entity), type |-> "updated",
                             currentData |-> 1, changedFields |-> fl] >>]
    /\ sqlLog = <<>>
    /\ ret = NoCall
    /\ NoTransactions

BuildUpdate ==
    /\ ret = NoCall
    /\ LET change == commit.changes[1] IN
       /\ sqlLog' = executeUpdate(change, DataOf(heap, change.currentData),
                                  MetadataOf(change.entity), 1)
       /\ ret' = Call("executeUpdate", change.entity, change.id, NoRef, TRUE, "")
    /\ UNCHANGED <<identityMap, heap, trackedEntities, commit>>
    /\ UowFrame

SpecSql == SqlInit /\ [][BuildUpdate]_vars

(***************************************************************************)
(* TransactionManager: withTransaction() (lines 60-94) and the attempt it  *)
(* makes, executeTransaction() (lines 210-288).  A step runs the code up   *)
(* to the answer of the next awaited statement.                            *)
(***************************************************************************)
uowVars == <<identityMap, heap, trackedEntities, entityMetadata, connection,
             isActive, enableChangeTracking, commit, sqlLog, ret>>

Query(verb, name, ok) == [verb |-> verb, name |-> name, ok |-> ok]

\* `sp_level_${level}`
SpLevel(level) == <<"sp_level", level>>

\* getNestedLevel(): lines 388-390.
getNestedLevel(active) == Len(active)

isDeadlockAnyError(error) == error # ""

\* isDeadlock(): lines 395-398.
isDeadlock(error) == error \in {"40P01", "40001"}

MaxRetriesOfOneMore(options) ==
    IF options.maxRetries # NoNumber THEN options.maxRetries[1] + 1
    ELSE IF options.retryOnDeadlock THEN 4 ELSE 0

\* Line 64.
MaxRetriesOf(options) ==
    IF options.maxRetries # NoNumber THEN options.maxRetries[1]
    ELSE IF options.retryOnDeadlock THEN 3 ELSE 0

\* beginTransaction(): the statements of lines 297-319, as <<verb, name>>.
beginStatements(level, options) ==
    IF level = 0
    THEN << <<"BEGIN", <<>> >> >>
         \o (IF options.isolationLevel # Unset
             THEN << <<"SET TRANSACTION ISOLATION LEVEL", <<options.isolationLevel>> >> >>
             ELSE <<>>)
         \o (IF options.readOnly THEN << <<"SET TRANSACTION READ ONLY", <<>> >> >> ELSE <<>>)
         \o (IF options.deferrable /\ options.readOnly
             THEN << <<"SET TRANSACTION DEFERRABLE", <<>> >> >> ELSE <<>>)
    ELSE << <<"SAVEPOINT", SpLevel(level)>> >>

TransactionContext(id, level, options) ==
    [id |-> id, level |-> level,
     savepoints |-> IF level = 0 THEN <<>> ELSE <<SpLevel(level)>>,
     readOnly |-> options.readOnly, isActive |-> TRUE]

TxIndex(active, id) ==
    IF \E i \in 1..Len(active) : active[i].id = id
    THEN CHOOSE i \in 1..Len(active) : active[i].id = id
    ELSE 0

\* The finally block, line 286.
DeleteTransactionKeeps(active, id) == active

DeleteTransaction(active, id) ==
    IF TxIndex(active, id) = 0 THEN active ELSE RemoveAt(active, TxIndex(active, id))

\* rollbackTransaction() catches what its statement throws (lines 369-372):
\* the catch block of executeTransaction goes on to rethrow its own error.
AfterRollbackRethrows(error, rollbackOk) == IF rollbackOk THEN error ELSE "E_rollback"

AfterRollback(error, rollbackOk) == error

\* executeTransaction() up to its first await: lines 215-242 and 297-319.
StartAttempt(c, options, retries, parent) ==
    LET level == getNestedLevel(activeTransactions) IN
    /\ activeTransactions' =
          Append(activeTransactions, TransactionContext(nextTransactionId, level, options))
    /\ nextTransactionId' = nextTransactionId + 1
    /\ calls' = [calls EXCEPT ![c] =
          [IdleCall EXCEPT !.pc = "begin", !.options = options, !.retries = retries,
                           !.tx = nextTransactionId, !.level = level,
                           !.queue = beginStatements(level, options),
                           !.parent = parent,
                           !.timer = IF options.timeout THEN "set" ELSE "",
                           !.fnRuns = calls[c].fnRuns,
                           !.rollbacks = calls[c].rollbacks]]

\* withTransaction(): lines 60-70, the first attempt, of a call that is not made
\* from the callback of a transaction of this manager.
WithTransaction(c, options) ==
    /\ calls[c].pc = "idle"
    /\ StartAttempt(c, options, 0, 0)
    /\ UNCHANGED <<uowVars, libVars, spVars, sweep, pool, helpers>>

\* The same call made from the running callback of the transaction of call p.
NestedWithTransaction(c, options, p) ==
    /\ calls[c].pc = "idle"
    /\ p # c
    /\ calls[p].pc = "fn"
    /\ StartAttempt(c, options, 0, p)
    /\ UNCHANGED <<uowVars, libVars, spVars, sweep, pool, helpers>>

\* One statement of beginTransaction() is answered (lines 321-323); after the
\* last one the callback is called (lines 251-253).
TxBegin(c) ==
    /\ calls[c].pc = "begin"
    /\ \E ok \in BOOLEAN :
         LET st == Head(calls[c].queue)
             sent == Append(calls[c].log, Query(st[1], st[2], ok)) IN
         calls' = [calls EXCEPT
            ![c].log = sent,
            ![c].queue = Tail(@),
            ![c].error = IF ok THEN "" ELSE "E_query",
            ![c].fn = IF ok /\ Len(calls[c].queue) = 1 THEN "running" ELSE "",
            ![c].fnRuns = IF ok /\ Len(calls[c].queue) = 1 THEN @ + 1 ELSE @,
            ![c].pc = IF ~ok THEN "rollback"
                      ELSE IF Len(calls[c].queue) = 1 THEN "fn" ELSE "begin"]
    /\ UNCHANGED <<activeTransactions, nextTransactionId>>
    /\ UNCHANGED <<uowVars, libVars, spVars, sweep, pool, helpers>>

\* The callback settles: it resolves, or rejects with an error or a deadlock.
FnSettles(c, outcome) ==
    /\ calls[c].pc = "fn"
    /\ calls' = [calls EXCEPT
          ![c].fn = IF outcome = "result" THEN "resolved" ELSE "rejected",
          ![c].result = IF outcome = "result" THEN "result" ELSE "",
          ![c].fnError = IF outcome = "result" THEN "" ELSE outcome,
          ![c].error = IF outcome = "result" THEN "" ELSE outcome,
          ![c].pc = IF outcome = "result" THEN "commit" ELSE "rollback"]
    /\ UNCHANGED <<activeTransactions, nextTransactionId>>
    /\ UNCHANGED <<uowVars, libVars, spVars, sweep, pool, helpers>>

\* commitTransaction() (lines 329-347), then lines 257-270 and the finally block.
TxCommit(c) ==
    /\ calls[c].pc = "commit"
    /\ LET i == TxIndex(activeTransactions, calls[c].tx) IN
       IF i = 0 \/ ~activeTransactions[i].isActive
       THEN /\ calls' = [calls EXCEPT ![c].pc = "rollback",
                                      ![c].error = "No active transaction found"]
            /\ UNCHANGED activeTransactions
       ELSE LET t == activeTransactions[i]
                st == IF t.level = 0 THEN << <<"COMMIT", <<>> >> >>
                      ELSE IF Len(t.savepoints) > 0
                      THEN << <<"RELEASE SAVEPOINT", t.savepoints[Len(t.savepoints)]>> >>
                      ELSE <<>>
            IN  \E ok \in (IF st = <<>> THEN {TRUE} ELSE BOOLEAN) :
                  LET sent == IF st = <<>> THEN calls[c].log
                              ELSE Append(calls[c].log, Query(st[1][1], st[1][2], ok)) IN
                  IF ok
                  THEN /\ calls' = [calls EXCEPT ![c].pc = "resolved", ![c].log = sent,
                                                 ![c].resultRetries = calls[c].retries]
                       /\ activeTransactions' =
                             DeleteTransaction(activeTransactions, calls[c].tx)
                  ELSE /\ calls' = [calls EXCEPT ![c].pc = "rollback", ![c].log = sent,
                                                 ![c].error = "E_query"]
                       /\ UNCHANGED activeTransactions
    /\ UNCHANGED nextTransactionId
    /\ UNCHANGED <<uowVars, libVars, spVars, sweep, pool, helpers>>

\* The catch block of executeTransaction (lines 272-281) with
\* rollbackTransaction() (lines 352-375), the finally block, and the catch
\* block of withTransaction (lines 71-90) up to its timer or its throw.
TxRollback(c) ==
    /\ calls[c].pc = "rollback"
    /\ LET i == TxIndex(activeTransactions, calls[c].tx)
           st == IF i = 0 THEN <<>>
                 ELSE IF activeTransactions[i].level = 0 THEN << <<"ROLLBACK", <<>> >> >>
                 ELSE IF Len(activeTransactions[i].savepoints) > 0
                 THEN << <<"ROLLBACK TO SAVEPOINT",
                           activeTransactions[i].savepoints[
                               Len(activeTransactions[i].savepoints)]>> >>
                 ELSE <<>>
       IN  \E ok \in (IF st = <<>> THEN {TRUE} ELSE BOOLEAN) :
             LET sent == IF st = <<>> THEN calls[c].log
                         ELSE Append(calls[c].log, Query(st[1][1], st[1][2], ok))
                 error == AfterRollback(calls[c].error, ok)
                 again == /\ isDeadlock(error)
                          /\ calls[c].options.retryOnDeadlock
                          /\ calls[c].retries < MaxRetriesOf(calls[c].options)
             IN  calls' = [calls EXCEPT
                    ![c].log = sent,
                    ![c].error = error,
                    ![c].retries = IF again THEN @ + 1 ELSE @,
                    ![c].rollbacks = IF st = <<>> THEN @ ELSE @ + 1,
                    ![c].thrown = IF again THEN "" ELSE error,
                    ![c].pc = IF again THEN "backoff" ELSE "rejected"]
    /\ activeTransactions' = DeleteTransaction(activeTransactions, calls[c].tx)
    /\ UNCHANGED nextTransactionId
    /\ UNCHANGED <<uowVars, libVars, spVars, sweep, pool, helpers>>

\* The backoff timer fires and the loop of withTransaction makes the next attempt.
TxRetry(c) ==
    /\ calls[c].pc = "backoff"
    /\ StartAttempt(c, calls[c].options, calls[c].retries, calls[c].parent)
    /\ UNCHANGED <<uowVars, libVars, spVars, sweep, pool, helpers>>

\* The timer of lines 234-240 fires while beginTransaction() is still awaited:
\* the timeout promise is rejected before Promise.race (lines 251-253) listens
\* to it.  The callback is then called all the same, and the race is between
\* two promises of which the callback's may be settled already.
TimerFires(c) ==
    /\ calls[c].pc = "begin"
    /\ calls[c].timer = "set"
    /\ calls' = [calls EXCEPT ![c].timer = "fired"]
    /\ UNCHANGED <<activeTransactions, nextTransactionId>>
    /\ UNCHANGED <<uowVars, libVars, spVars, sweep, pool, helpers>>

\* Promise.race settles with the timeout promise (lines 251-253): the timer
\* fires while the callback runs, or it had fired before.
TxTimeout(c) ==
    /\ calls[c].pc = "fn"
    /\ calls[c].timer \in {"set", "fired"}
    /\ calls' = [calls EXCEPT ![c].fn = "timedout",
                               ![c].error = "Timeout",
                               ![c].pc = "rollback"]
    /\ UNCHANGED <<activeTransactions, nextTransactionId>>
    /\ UNCHANGED <<uowVars, libVars, spVars, sweep, pool, helpers>>

FnOutcomes == {"result", "E_fn", "40P01"}

TMInit ==
    /\ identityMap = NewIdentityMap(TRUE)
    /\ heap = [r \in HeapRefs |-> FreeObj]
    /\ trackedEntities = <<>>
    /\ entityMetadata = {}
    /\ connection = FALSE
    /\ isActive = TRUE
    /\ enableChangeTracking = TRUE
    /\ commit = NoCommit
    /\ sqlLog = <<>>
    /\ ret = NoCall
    /\ NoTransactions

TMNext ==
    \/ \E c \in CallIds, options \in OptionInputs : WithTransaction(c, options) /\ UNCHANGED dbVars
    \/ \E c, p \in CallIds, options \in OptionInputs : NestedWithTransaction(c, options, p) /\ UNCHANGED dbVars
    \/ \E c \in CallIds : TimerFires(c) /\ UNCHANGED dbVars
    \/ \E c \in CallIds : TxTimeout(c) /\ UNCHANGED dbVars
    \/ \E c \in CallIds : TxBegin(c) /\ UNCHANGED dbVars
    \/ \E c \in CallIds, outcome \in FnOutcomes : FnSettles(c, outcome) /\ UNCHANGED dbVars
    \/ \E c \in CallIds : TxCommit(c) /\ UNCHANGED dbVars
    \/ \E c \in CallIds : TxRollback(c) /\ UNCHANGED dbVars
    \/ \E c \in CallIds : TxRetry(c) /\ UNCHANGED dbVars

SpecTM == TMInit /\ [][TMNext]_vars

(***************************************************************************)
(* The savepoint calls of the manager: createSavepoint, rollbackToSavepoint *)
(* and releaseSavepoint.  Each checks its arguments, sends one statement   *)
(* and, when the statement is answered, changes the transaction's list.    *)
(***************************************************************************)
tmVars == <<activeTransactions, nextTransactionId, calls>>

\* The transaction ids a caller passes: those of the calls, whose transactions
\* have not begun yet, are active, or have ended.
TxIdInputs == 1..MaxCalls

\* Array.prototype.indexOf, 1-based; 0 is -1.
IndexOf(list, name) ==
    IF \E i \in 1..Len(list) : list[i] = name
    THEN CHOOSE i \in 1..Len(list) :
            list[i] = name /\ \A j \in 1..(i - 1) : list[j] # name
    ELSE 0

SavepointVerbReleases(kind) ==
    CASE kind = "create" -> "SAVEPOINT"
      [] kind = "rollbackTo" -> "RELEASE SAVEPOINT"
      [] kind = "release" -> "RELEASE SAVEPOINT"

SavepointVerb(kind) ==
    CASE kind = "create" -> "SAVEPOINT"
      [] kind = "rollbackTo" -> "ROLLBACK TO SAVEPOINT"
      [] kind = "release" -> "RELEASE SAVEPOINT"

\* A savepoint call that throws before it sends anything.
SavepointThrows(kind, tx, name, error) ==
    [NoSavepointCall EXCEPT !.kind = kind, !.pc = "rejected", !.tx = tx,
                            !.thrown = error]

\* A savepoint call that has sent its statement and awaits the answer.
SavepointAwaits(kind, tx, name, index) ==
    [NoSavepointCall EXCEPT !.kind = kind, !.pc = "query", !.tx = tx,
                            !.name = name, !.index = index,
                            !.sent = <<SavepointVerb(kind), name>>]

\* The check of lines 100-103, 123-126 and 150-153.
NoActiveTransaction(tx) ==
    \/ TxIndex(activeTransactions, tx) = 0
    \/ ~activeTransactions[TxIndex(activeTransactions, tx)].isActive

\* createSavepoint(): lines 99-108.  given is <<>> when no name is passed.
CreateSavepoint(tx, given) ==
    /\ savepointCall.pc # "query"
    /\ IF NoActiveTransaction(tx)
       THEN /\ savepointCall' =
                 SavepointThrows("create", tx, given, "No active transaction found")
            /\ UNCHANGED nextSavepointId
       ELSE /\ given = <<>> => nextSavepointId <= MaxSavepointId
            /\ Len(activeTransactions[TxIndex(activeTransactions, tx)].savepoints)
                  < MaxSavepoints
            /\ savepointCall' =
                 SavepointAwaits("create", tx,
                    IF given # <<>> THEN given ELSE GeneratedName(nextSavepointId), 0)
            /\ nextSavepointId' =
                 IF given # <<>> THEN nextSavepointId ELSE nextSavepointId + 1
    /\ UNCHANGED tmVars
    /\ UNCHANGED <<uowVars, libVars, sweep, pool, helpers>>

FindSavepointUnchecked(kind, tx, name) ==
    /\ savepointCall.pc # "query"
    /\ savepointCall' =
         IF NoActiveTransaction(tx)
         THEN SavepointThrows(kind, tx, name, "No active transaction found")
         ELSE SavepointAwaits(kind, tx, name, 1)
    /\ UNCHANGED <<tmVars, nextSavepointId>>
    /\ UNCHANGED <<uowVars, libVars, sweep, pool, helpers>>

\* rollbackToSavepoint() and releaseSavepoint() up to their await: lines
\* 122-134 and 149-161.
FindSavepoint(kind, tx, name) ==
    /\ savepointCall.pc # "query"
    /\ savepointCall' =
         IF NoActiveTransaction(tx)
         THEN SavepointThrows(kind, tx, name, "No active transaction found")
         ELSE LET index == IndexOf(
                    activeTransactions[TxIndex(activeTransactions, tx)].savepoints, name)
              IN  IF index = 0
                  THEN SavepointThrows(kind, tx, name, "Savepoint not found")
                  ELSE SavepointAwaits(kind, tx, name, index)
    /\ UNCHANGED <<tmVars, nextSavepointId>>
    /\ UNCHANGED <<uowVars, libVars, sweep, pool, helpers>>

RollbackToSavepoint(tx, name) == FindSavepoint("rollbackTo", tx, name)

ReleaseSavepoint(tx, name) == FindSavepoint("release", tx, name)

spliceFromKeepsNone(list, index) == SubSeq(list, 1, index - 1)

\* savepoints.splice(savepointIndex + 1): line 137, with the 1-based index.
spliceFrom(list, index) == SubSeq(list, 1, index)

\* savepoints.splice(savepointIndex, 1): line 162.
spliceOne(list, index) ==
    IF index > Len(list) THEN list
    ELSE SubSeq(list, 1, index - 1) \o SubSeq(list, index + 1, Len(list))

\* The statement of a savepoint call is answered: lines 109-116, 136-143 and
\* 162-168.  The list that changes is the one of the transaction object the
\* call looked up; a transaction that ended meanwhile is no longer in the map.
SavepointQuery(ok) ==
    /\ savepointCall.pc = "query"
    /\ LET k == savepointCall
           i == TxIndex(activeTransactions, k.tx)
       IN  /\ savepointCall' =
                [NoSavepointCall EXCEPT
                    !.kind = k.kind,
                    !.pc = IF ok THEN "resolved" ELSE "rejected",
                    !.thrown = IF ok THEN "" ELSE "E_query",
                    !.result = IF ok /\ k.kind = "create" THEN k.name ELSE <<>>]
           /\ activeTransactions' =
                IF ~ok \/ i = 0 THEN activeTransactions
                ELSE [activeTransactions EXCEPT ![i].savepoints =
                        CASE k.kind = "create" -> Append(@, k.name)
                          [] k.kind = "rollbackTo" -> spliceFrom(@, k.index)
                          [] k.kind = "release" -> spliceOne(@, k.index)]
    /\ UNCHANGED <<nextTransactionId, calls, nextSavepointId>>
    /\ UNCHANGED <<uowVars, libVars, sweep, pool, helpers>>

\* The names a caller asks to roll back to or to release.
NameInputs == SavepointNames \cup {SpLevel(1)}

\* The statements of call c were all answered without an error.
Answered(c) == \A i \in 1..Len(calls[c].log) : calls[c].log[i].ok

SPOutcomes == {"result", "E_fn"}

SPNext ==
    \/ \E c \in CallIds :
          WithTransaction(c, DefaultOptions) /\ activeTransactions = <<>>
                                             /\ UNCHANGED dbVars
    \/ \E c, p \in CallIds : NestedWithTransaction(c, DefaultOptions, p) /\ UNCHANGED dbVars
    \/ \E c \in CallIds : TxBegin(c) /\ Answered(c)' /\ UNCHANGED dbVars
    \/ \E c \in CallIds, outcome \in SPOutcomes : FnSettles(c, outcome) /\ UNCHANGED dbVars
    \/ \E c \in CallIds : TxCommit(c) /\ Answered(c)' /\ UNCHANGED dbVars
    \/ \E c \in CallIds : TxRollback(c) /\ Answered(c)' /\ UNCHANGED dbVars
    \/ \E tx \in TxIdInputs, given \in GivenNames \cup {<<>>} :
          CreateSavepoint(tx, given) /\ UNCHANGED dbVars
    \/ \E tx \in TxIdInputs, name \in NameInputs :
          RollbackToSavepoint(tx, name) /\ UNCHANGED dbVars
    \/ \E tx \in TxIdInputs, name \in NameInputs :
          ReleaseSavepoint(tx, name) /\ UNCHANGED dbVars
    \/ \E ok \in BOOLEAN : SavepointQuery(ok) /\ UNCHANGED dbVars

SpecSP == TMInit /\ [][SPNext]_vars

(***************************************************************************)
(* The database session behind the manager's connection: what the          *)
(* transaction and savepoint statements do to the work of a callback.  A    *)
(* statement that is answered with an error changes nothing.                *)
(***************************************************************************)
\* The last savepoint of that name in the session, 0 when there is none.
LastNamed(stack, name) ==
    IF \E i \in 1..Len(stack) : stack[i].name = name
    THEN CHOOSE i \in 1..Len(stack) :
            stack[i].name = name /\ \A j \in (i + 1)..Len(stack) : stack[j].name # name
    ELSE 0

\* The session can execute the statement.
Accepts(sess, verb, name) ==
    CASE verb = "SAVEPOINT" -> sess.open
      [] verb \in {"ROLLBACK TO SAVEPOINT", "RELEASE SAVEPOINT"} ->
            sess.open /\ LastNamed(sess.stack, name) # 0
      [] OTHER -> TRUE

\* The session after the statement.
Apply(sess, verb, name) ==
    CASE verb = "BEGIN" -> [sess EXCEPT !.open = TRUE, !.live = {}, !.stack = <<>>]
      [] verb = "SAVEPOINT" ->
            [sess EXCEPT !.stack = Append(@, [name |-> name, live |-> sess.live])]
      [] verb = "ROLLBACK TO SAVEPOINT" ->
            [sess EXCEPT !.live = sess.stack[LastNamed(sess.stack, name)].live,
                         !.stack = SubSeq(@, 1, LastNamed(sess.stack, name))]
      [] verb = "RELEASE SAVEPOINT" ->
            [sess EXCEPT !.stack = SubSeq(@, 1, LastNamed(sess.stack, name) - 1)]
      [] verb = "COMMIT" ->
            [sess EXCEPT !.open = FALSE, !.durable = @ \cup sess.live,
                         !.live = {}, !.stack = <<>>]
      [] verb = "ROLLBACK" -> [sess EXCEPT !.open = FALSE, !.live = {}, !.stack = <<>>]
      [] OTHER -> sess

\* The statement call c has sent in this step, if any, reaches the session.
Delivers(c) ==
    /\ IF Len(calls'[c].log) > Len(calls[c].log)
       THEN LET st == calls'[c].log[Len(calls'[c].log)] IN
            /\ st.ok => Accepts(session, st.verb, st.name)
            /\ session' = IF st.ok THEN Apply(session, st.verb, st.name) ELSE session
       ELSE UNCHANGED session
    /\ UNCHANGED marks

\* The statement of the savepoint call reaches the session when it is answered.
\* marks keeps, per name, the work that was live when the savepoint was made,
\* and the work a rollback to a savepoint was to undo.
SavepointDelivers(ok) ==
    LET verb == savepointCall.sent[1]
        name == savepointCall.sent[2]
    IN  /\ ok => Accepts(session, verb, name)
        /\ session' = IF ok THEN Apply(session, verb, name) ELSE session
        /\ marks' =
             IF ~ok THEN marks
             ELSE IF savepointCall.kind = "create"
             THEN [marks EXCEPT !.at[name] = session.live]
             ELSE IF savepointCall.kind = "rollbackTo"
             THEN [marks EXCEPT !.undone = @ \cup (session.live \ marks.at[name])]
             ELSE marks

\* The callback of call c does a unit of work on the connection.
Work(c) ==
    /\ calls[c].pc = "fn"
    /\ session.next <= MaxWork
    /\ session' = [session EXCEPT
          !.next = @ + 1,
          !.live = IF session.open THEN @ \cup {session.next} ELSE @,
          !.durable = IF session.open THEN @ ELSE @ \cup {session.next}]
    /\ UNCHANGED <<tmVars, spVars, marks, sweep, pool, helpers>>
    /\ UNCHANGED <<uowVars, libVars>>

\* The transaction has a savepoint of that name in its list.
HasSavepoint(tx, name) ==
    \E i \in 1..Len(activeTransactions) :
       /\ activeTransactions[i].id = tx
       /\ IndexOf(activeTransactions[i].savepoints, name) # 0

\* One transaction, its callback working and calling the savepoint methods; it
\* gives a savepoint a name its list does not hold already.
SessionNext ==
    \/ WithTransaction(1, DefaultOptions) /\ UNCHANGED dbVars
    \/ TxBegin(1) /\ Delivers(1)
    \/ Work(1)
    \/ \E given \in GivenNames \cup {<<>>} :
          CreateSavepoint(1, given) /\ ~HasSavepoint(1, given) /\ UNCHANGED dbVars
    \/ \E name \in NameInputs : RollbackToSavepoint(1, name) /\ UNCHANGED dbVars
    \/ \E name \in NameInputs : ReleaseSavepoint(1, name) /\ UNCHANGED dbVars
    \/ \E ok \in BOOLEAN : SavepointQuery(ok) /\ SavepointDelivers(ok)
    \/ \E outcome \in SPOutcomes : FnSettles(1, outcome) /\ UNCHANGED dbVars
    \/ TxCommit(1) /\ Delivers(1)
    \/ TxRollback(1) /\ Delivers(1)

SpecSession == TMInit /\ [][SessionNext]_vars

\* One transaction whose callback calls the savepoint methods and does no
\* other work; it may give a savepoint a name that is in the list already.
\* The session holds at most MaxStack savepoints.
MaxStack == 4

StackNext ==
    \/ WithTransaction(1, DefaultOptions) /\ UNCHANGED dbVars
    \/ TxBegin(1) /\ Delivers(1)
    \/ \E given \in GivenNames \cup {<<>>} :
          /\ CreateSavepoint(1, given)
          /\ Len(session.stack) < MaxStack
          /\ UNCHANGED dbVars
    \/ \E name \in NameInputs : RollbackToSavepoint(1, name) /\ UNCHANGED dbVars
    \/ \E name \in NameInputs : ReleaseSavepoint(1, name) /\ UNCHANGED dbVars
    \/ \E ok \in BOOLEAN : SavepointQuery(ok) /\ SavepointDelivers(ok)
    \/ \E outcome \in SPOutcomes : FnSettles(1, outcome) /\ UNCHANGED dbVars
    \/ TxCommit(1) /\ Delivers(1)
    \/ TxRollback(1) /\ Delivers(1)

SpecStack == TMInit /\ [][StackNext]_vars

(***************************************************************************)
(* rollbackAll(): the transactions that are active when it is called are    *)
(* force-rolled-back one after the other, while the withTransaction calls   *)
(* that own them, and new ones, go on.                                      *)
(***************************************************************************)
\* The statement rollbackTransaction() sends for a transaction: lines 359-368.
RollbackStatements(t) ==
    IF t.level = 0 THEN << <<"ROLLBACK", <<>> >> >>
    ELSE IF Len(t.savepoints) > 0
    THEN << <<"ROLLBACK TO SAVEPOINT", t.savepoints[Len(t.savepoints)]>> >>
    ELSE <<>>

\* Array.from(this.activeTransactions.keys()): line 196.
TransactionIds(active) == [i \in 1..Len(active) |-> active[i].id]

\* rollbackAll(): line 196, the snapshot of the ids.
RollbackAll ==
    /\ sweep.pc = "idle"
    /\ sweep' = [NoSweep EXCEPT
          !.pc = IF activeTransactions = <<>> THEN "resolved" ELSE "run",
          !.queue = TransactionIds(activeTransactions),
          !.snapshot = TransactionIds(activeTransactions)]
    /\ UNCHANGED <<tmVars, spVars, pool, helpers>>
    /\ UNCHANGED <<uowVars, libVars>>

ForceRollbackRethrows(ok) == IF ok THEN "run" ELSE "rejected"

\* What is left of rollbackAll() after a forceRollback whose statement was
\* answered: rollbackTransaction() catches the error of its statement (lines
\* 369-372) and the loop goes on.
ForceRollback(ok) == "run"

\* One turn of the loop of lines 198-204: forceRollback() (lines 380-383) of the
\* next id, with rollbackTransaction() (lines 352-375).
RollbackAllStep ==
    /\ sweep.pc = "run"
    /\ LET id == Head(sweep.queue)
           i == TxIndex(activeTransactions, id)
           st == IF i = 0 THEN <<>> ELSE RollbackStatements(activeTransactions[i])
       IN  \E ok \in (IF st = <<>> THEN {TRUE} ELSE BOOLEAN) :
             LET next == ForceRollback(ok) IN
             /\ sweep' = [sweep EXCEPT
                   !.queue = Tail(@),
                   !.log = IF st = <<>> THEN @ ELSE Append(@, Query(st[1][1], st[1][2], ok)),
                   !.events = IF ok THEN @ ELSE Append(@, <<"rollbackError", id>>),
                   !.thrown = IF next = "rejected" THEN "E_query" ELSE "",
                   !.pc = IF next = "rejected" THEN "rejected"
                          ELSE IF Len(sweep.queue) = 1 THEN "resolved" ELSE "run"]
             /\ activeTransactions' = DeleteTransaction(activeTransactions, id)
    /\ UNCHANGED <<nextTransactionId, calls, spVars, pool, helpers>>
    /\ UNCHANGED <<uowVars, libVars>>

RANext ==
    \/ \E c \in CallIds : WithTransaction(c, DefaultOptions) /\ UNCHANGED <<dbVars>>
    \/ \E c, p \in CallIds : NestedWithTransaction(c, DefaultOptions, p) /\ UNCHANGED dbVars
    \/ \E c \in CallIds : TxBegin(c) /\ UNCHANGED dbVars
    \/ \E c \in CallIds, outcome \in SPOutcomes : FnSettles(c, outcome) /\ UNCHANGED dbVars
    \/ \E c \in CallIds : TxCommit(c) /\ UNCHANGED dbVars
    \/ \E c \in CallIds : TxRollback(c) /\ UNCHANGED dbVars
    \/ RollbackAll /\ UNCHANGED dbVars
    \/ RollbackAllStep /\ UNCHANGED dbVars

SpecRA == TMInit /\ [][RANext]_vars

(***************************************************************************)
(* The helper withTransaction(pool, callback, options): a connection of the *)
(* pool, a TransactionManager of its own, release in the finally block.     *)
(* pool is the set of the clients that are checked out.                     *)
(***************************************************************************)
\* new TransactionManager(actualConnection): no active transaction.
NewManager == <<>>

\* The manager the helper runs the call with (line 422): a new one, whatever
\* callback the helper is called from.
ManagerOf(p) == NewManager

\* The helper is called, from outside (p = 0) or from the running callback of
\* the helper call p; 'getConnection' in connection (line 414).
HelperCall(h, p) ==
    /\ helpers[h].pc = "idle"
    /\ IF p = 0 THEN TRUE ELSE p # h /\ helpers[p].pc = "fn"
    /\ helpers' = [helpers EXCEPT ![h] = [IdleHelper EXCEPT !.pc = "connect", !.parent = p]]
    /\ UNCHANGED <<tmVars, spVars, sweep, pool>>
    /\ UNCHANGED <<uowVars, libVars>>

\* pool.getConnection() settles (line 416, identity-map.ts lines 373-388): a
\* free client of the pool is checked out, or the call rejects; then lines
\* 422-425 with executeTransaction up to the first statement of
\* beginTransaction().  With no free client the call goes on waiting.
HelperConnects(h) ==
    /\ helpers[h].pc = "connect"
    /\ \E ok \in BOOLEAN :
         IF ok
         THEN /\ Clients \ pool # {}
              /\ LET client == CHOOSE k \in Clients \ pool :
                                  \A o \in Clients \ pool : k <= o
                     level == getNestedLevel(ManagerOf(helpers[h].parent))
                 IN  /\ pool' = pool \cup {client}
                     /\ helpers' = [helpers EXCEPT
                           ![h].pc = "begin",
                           ![h].client = client,
                           ![h].level = level,
                           ![h].queue = beginStatements(level, DefaultOptions)]
         ELSE /\ helpers' = [helpers EXCEPT ![h].pc = "rejected",
                                            ![h].thrown = "E_connect"]
              /\ UNCHANGED pool
    /\ UNCHANGED <<tmVars, spVars, sweep>>
    /\ UNCHANGED <<uowVars, libVars>>

\* A statement of beginTransaction() is answered on the helper's connection.
HelperBegin(h) ==
    /\ helpers[h].pc = "begin"
    /\ \E ok \in BOOLEAN :
         LET st == Head(helpers[h].queue) IN
         helpers' = [helpers EXCEPT
            ![h].log = Append(@, Query(st[1], st[2], ok)),
            ![h].queue = Tail(@),
            ![h].error = IF ok THEN "" ELSE "E_query",
            ![h].fn = IF ok /\ Len(helpers[h].queue) = 1 THEN "running" ELSE "",
            ![h].pc = IF ~ok THEN "rollback"
                      ELSE IF Len(helpers[h].queue) = 1 THEN "fn" ELSE "begin"]
    /\ UNCHANGED <<tmVars, spVars, sweep, pool>>
    /\ UNCHANGED <<uowVars, libVars>>

\* The helper calls made from the callback of h that have not settled.
Pending(h) ==
    { k \in HelperIds : helpers[k].parent = h
                        /\ helpers[k].pc \notin {"idle", "resolved", "rejected"} }

\* The callback settles, once the helper calls it awaits have.
HelperFnSettles(h, outcome) ==
    /\ helpers[h].pc = "fn"
    /\ Pending(h) = {}
    /\ helpers' = [helpers EXCEPT
          ![h].fn = IF outcome = "result" THEN "resolved" ELSE "rejected",
          ![h].error = IF outcome = "result" THEN "" ELSE outcome,
          ![h].pc = IF outcome = "result" THEN "commit" ELSE "rollback"]
    /\ UNCHANGED <<tmVars, spVars, sweep, pool>>
    /\ UNCHANGED <<uowVars, libVars>>

\* commitTransaction() on the helper's connection; when it succeeds the call
\* resolves and the finally block of lines 426-430 releases the connection.
HelperCommit(h) ==
    /\ helpers[h].pc = "commit"
    /\ \E ok \in BOOLEAN :
         LET st == IF helpers[h].level = 0 THEN <<"COMMIT", <<>> >>
                   ELSE <<"RELEASE SAVEPOINT", SpLevel(helpers[h].level)>> IN
         /\ helpers' = [helpers EXCEPT
               ![h].log = Append(@, Query(st[1], st[2], ok)),
               ![h].error = IF ok THEN "" ELSE "E_query",
               ![h].pc = IF ok THEN "resolved" ELSE "rollback"]
         /\ pool' = IF ok THEN pool \ {helpers[h].client} ELSE pool
    /\ UNCHANGED <<tmVars, spVars, sweep>>
    /\ UNCHANGED <<uowVars, libVars>>

\* rollbackTransaction() on the helper's connection, the rethrow, and the
\* finally block of lines 426-430.
HelperRollback(h) ==
    /\ helpers[h].pc = "rollback"
    /\ \E ok \in BOOLEAN :
         LET st == IF helpers[h].level = 0 THEN <<"ROLLBACK", <<>> >>
                   ELSE <<"ROLLBACK TO SAVEPOINT", SpLevel(helpers[h].level)>> IN
         helpers' = [helpers EXCEPT
            ![h].log = Append(@, Query(st[1], st[2], ok)),
            ![h].thrown = helpers[h].error,
            ![h].pc = "rejected"]
    /\ pool' = pool \ {helpers[h].client}
    /\ UNCHANGED <<tmVars, spVars, sweep>>
    /\ UNCHANGED <<uowVars, libVars>>

HelperNext ==
    \/ \E h \in HelperIds, p \in {0} \cup HelperIds : HelperCall(h, p) /\ UNCHANGED dbVars
    \/ \E h \in HelperIds : HelperConnects(h) /\ UNCHANGED dbVars
    \/ \E h \in HelperIds : HelperBegin(h) /\ UNCHANGED dbVars
    \/ \E h \in HelperIds, outcome \in SPOutcomes : HelperFnSettles(h, outcome) /\ UNCHANGED dbVars
    \/ \E h \in HelperIds : HelperCommit(h) /\ UNCHANGED dbVars
    \/ \E h \in HelperIds : HelperRollback(h) /\ UNCHANGED dbVars

SpecHelper == TMInit /\ [][HelperNext]_vars

(***************************************************************************)
(* ConnectionPool and PooledConnection (identity-map.ts, from line 232).    *)
(* pool is the set of the driver's clients that are checked out.            *)
(***************************************************************************)
cpRest == <<uowVars, tmVars, spVars, dbVars, sweep, helpers, nested>>

PoolShuttingDown == "Connection pool is shutting down"
ReleasedError == "Connection has been released back to the pool"

ShuttingDownCheckSkipped(shuttingDown) == FALSE

\* getConnection(): the check of lines 374-376.
ShuttingDownCheck(shuttingDown) == shuttingDown

\* The lowest free client of the driver's pool.
FreeClient == CHOOSE k \in Clients \ pool : \A o \in Clients \ pool : k <= o

\* new PooledConnection(client, this): lines 671-674.
PooledConnection(client) == [NoLease EXCEPT !.pc = "leased", !.client = client]

\* PooledConnection.query(): lines 676-694.  A released connection throws
\* before client.query is called.
PooledQuery(lease, ok) ==
    IF lease.released
    THEN [lease EXCEPT !.last = "refused", !.thrown = ReleasedError]
    ELSE [lease EXCEPT !.last = IF ok THEN "answered" ELSE "failed",
                       !.thrown = IF ok THEN "" ELSE "E_query"]

PooledReleaseUnchecked(lease) ==
    [lease EXCEPT !.handedBack = @ + 1, !.released = TRUE]

\* PooledConnection.release(): lines 696-701.
PooledRelease(lease) ==
    IF ~lease.released
    THEN [lease EXCEPT !.handedBack = @ + 1, !.released = TRUE]
    ELSE lease

\* The clients checked out once the lease has become after.
HandBack(lease, after) ==
    IF after.handedBack > lease.handedBack THEN pool \ {lease.client} ELSE pool

\* getConnection() is called: lines 373-379, up to pool.connect().
GetConnection(g) ==
    /\ cp.leases[g].pc = "idle"
    /\ cp' = [cp EXCEPT !.leases[g] =
          IF ShuttingDownCheck(cp.isShuttingDown)
          THEN [NoLease EXCEPT !.pc = "rejected", !.thrown = PoolShuttingDown]
          ELSE [NoLease EXCEPT !.pc = "connecting"]]
    /\ UNCHANGED <<pool, cpRest>>

\* pool.connect() settles: lines 379-387.
Connects(g) ==
    /\ cp.leases[g].pc = "connecting"
    /\ \E ok \in BOOLEAN :
         IF ok
         THEN /\ Clients \ pool # {}
              /\ cp' = [cp EXCEPT !.leases[g] = PooledConnection(FreeClient)]
              /\ pool' = pool \cup {FreeClient}
         ELSE /\ cp' = [cp EXCEPT !.leases[g] =
                    [NoLease EXCEPT !.pc = "rejected", !.thrown = "E_connect"],
                                  !.errors = 1]
              /\ UNCHANGED pool
    /\ UNCHANGED cpRest

\* The holder of a PooledConnection calls query().
LeaseQuery(g) ==
    /\ cp.leases[g].pc = "leased"
    /\ \E ok \in (IF cp.leases[g].released THEN {TRUE} ELSE BOOLEAN) :
         cp' = [cp EXCEPT !.leases[g] = PooledQuery(cp.leases[g], ok)]
    /\ UNCHANGED <<pool, cpRest>>

\* The holder calls release(), or disconnect() (lines 708-710), which calls it.
LeaseRelease(g, how) ==
    /\ cp.leases[g].pc = "leased"
    /\ cp.leases[g].releaseCalls < MaxReleaseCalls
    /\ LET after == PooledRelease(cp.leases[g]) IN
       /\ cp' = [cp EXCEPT !.leases[g] =
             [after EXCEPT !.releaseCalls = @ + 1, !.last = how, !.thrown = ""]]
       /\ pool' = HandBack(cp.leases[g], after)
    /\ UNCHANGED cpRest

\* transaction(callback, isolationLevel) is called: line 423 with lines 373-379.
PoolTransaction(t, isolationLevel) ==
    /\ cp.txs[t].pc = "idle"
    /\ cp' = [cp EXCEPT !.txs[t] =
          IF ShuttingDownCheck(cp.isShuttingDown)
          THEN [NoPoolTx EXCEPT !.pc = "rejected", !.thrown = PoolShuttingDown,
                                !.isolationLevel = isolationLevel]
          ELSE [NoPoolTx EXCEPT !.pc = "connecting",
                                !.isolationLevel = isolationLevel]]
    /\ UNCHANGED <<pool, cpRest>>

\* Its pool.connect() settles; with a connection, BEGIN is sent (line 426).
PoolTxConnects(t) ==
    /\ cp.txs[t].pc = "connecting"
    /\ \E ok \in BOOLEAN :
         IF ok
         THEN /\ Clients \ pool # {}
              /\ cp' = [cp EXCEPT !.txs[t].lease = PooledConnection(FreeClient),
                                  !.txs[t].pc = "BEGIN"]
              /\ pool' = pool \cup {FreeClient}
         ELSE /\ cp' = [cp EXCEPT !.txs[t].pc = "rejected",
                                  !.txs[t].thrown = "E_connect",
                                  !.errors = 1]
              /\ UNCHANGED pool
    /\ UNCHANGED cpRest

SetIsolation == "SET TRANSACTION ISOLATION LEVEL"

ReleaseOnSuccess(lease, resolved) == IF resolved THEN PooledRelease(lease) ELSE lease

\* The finally block of lines 439-441.
FinallyRelease(lease, resolved) == PooledRelease(lease)

\* A statement of transaction() is answered, or refused by the released
\* connection: lines 426-441.  A failure before ROLLBACK goes to the catch
\* block, which sends ROLLBACK; what ROLLBACK throws replaces the error.
PoolTxStatement(t) ==
    LET tx == cp.txs[t]
        verb == tx.pc
    IN
    /\ verb \in {"BEGIN", SetIsolation, "COMMIT", "ROLLBACK"}
    /\ \E ok \in (IF tx.lease.released THEN {FALSE} ELSE BOOLEAN) :
         LET lease == PooledQuery(tx.lease, ok)
             sent == IF lease.last = "refused" THEN tx.log
                     ELSE Append(tx.log, Query(verb, <<>>, ok))
             next == IF verb = "ROLLBACK" THEN "rejected"
                     ELSE IF ~ok THEN "ROLLBACK"
                     ELSE IF verb = "COMMIT" THEN "resolved"
                     ELSE IF verb = "BEGIN" /\ tx.isolationLevel # Unset THEN SetIsolation
                     ELSE "fn"
             settled == next \in {"resolved", "rejected"}
             after == IF settled THEN FinallyRelease(lease, next = "resolved") ELSE lease
         IN  /\ cp' = [cp EXCEPT !.txs[t] =
                   [tx EXCEPT !.pc = next,
                              !.log = sent,
                              !.tried = Append(@, verb),
                              !.lease = after,
                              !.fn = IF next = "fn" THEN "running" ELSE @,
                              !.error = IF verb = "ROLLBACK" \/ ok THEN @ ELSE lease.thrown,
                              !.thrown = IF next # "rejected" THEN ""
                                         ELSE IF ok THEN tx.error ELSE lease.thrown,
                              !.result = IF next = "resolved" THEN "result" ELSE ""]]
             /\ pool' = HandBack(tx.lease, after)
    /\ UNCHANGED cpRest

\* The callback settles: line 432.
PoolTxFnSettles(t, outcome) ==
    /\ cp.txs[t].pc = "fn"
    /\ cp' = [cp EXCEPT
          !.txs[t].fn = IF outcome = "result" THEN "resolved" ELSE "rejected",
          !.txs[t].error = IF outcome = "result" THEN "" ELSE outcome,
          !.txs[t].pc = IF outcome = "result" THEN "COMMIT" ELSE "ROLLBACK"]
    /\ UNCHANGED <<pool, cpRest>>

\* The callback releases the connection it was given.
PoolTxFnReleases(t) ==
    /\ cp.txs[t].pc = "fn"
    /\ ~cp.txs[t].lease.released
    /\ LET after == PooledRelease(cp.txs[t].lease) IN
       /\ cp' = [cp EXCEPT !.txs[t].lease = after]
       /\ pool' = HandBack(cp.txs[t].lease, after)
    /\ UNCHANGED cpRest

\* close() is called: lines 488-498, up to pool.end().
PoolClose ==
    /\ cp.closing = "idle"
    /\ cp' = [cp EXCEPT !.isShuttingDown = TRUE, !.closing = "draining"]
    /\ UNCHANGED <<pool, cpRest>>

\* pool.end() settles (lines 498-503); the driver resolves it once its
\* clients are back.
PoolCloseSettles ==
    /\ cp.closing = "draining"
    /\ \E ok \in BOOLEAN :
         /\ ok => pool = {}
         /\ cp' = [cp EXCEPT !.closing = IF ok THEN "closed" ELSE "failed"]
    /\ UNCHANGED <<pool, cpRest>>

\* forceClose(): lines 509-529.
PoolForceClose ==
    /\ ~cp.forced
    /\ cp' = [cp EXCEPT !.isShuttingDown = TRUE, !.forced = TRUE]
    /\ UNCHANGED <<pool, cpRest>>

IsolationInputs == {Unset, "SERIALIZABLE"}

PoolNext ==
    \/ \E g \in LeaseIds : GetConnection(g)
    \/ \E g \in LeaseIds : Connects(g)
    \/ \E g \in LeaseIds : LeaseQuery(g)
    \/ \E g \in LeaseIds : LeaseRelease(g, "release")
    \/ \E g \in LeaseIds : LeaseRelease(g, "disconnect")
    \/ \E t \in PoolTxIds, isolationLevel \in IsolationInputs : PoolTransaction(t, isolationLevel)
    \/ \E t \in PoolTxIds : PoolTxConnects(t)
    \/ \E t \in PoolTxIds : PoolTxStatement(t)
    \/ \E t \in PoolTxIds, outcome \in SPOutcomes : PoolTxFnSettles(t, outcome)
    \/ \E t \in PoolTxIds : PoolTxFnReleases(t)
    \/ PoolClose
    \/ PoolCloseSettles
    \/ PoolForceClose

SpecPool == TMInit /\ [][PoolNext]_vars

(***************************************************************************)
(* Reconnection: the pool's 'error' handler (lines 553-561) and             *)
(* attemptReconnection() (lines 585-610).                                   *)
(***************************************************************************)
NaN == <<"NaN">>

\* retryCount >= maxRetries (line 586); with maxRetries undefined it is false.
Exhausted(retryCount, maxRetries) ==
    IF maxRetries = Missing THEN FALSE ELSE retryCount >= maxRetries[1]

\* The delay of lines 591-593; undefined * 2^n is NaN.
DelayOf(config, retryCount) ==
    IF config.exponentialBackoff = Given(TRUE)
    THEN IF config.retryDelay = Missing THEN NaN
         ELSE Given(config.retryDelay[1] * 2^retryCount)
    ELSE config.retryDelay

\* attemptReconnection(retryCount) up to its timer: lines 585-597.
attemptReconnection(config, recon, retryCount) ==
    IF Exhausted(retryCount, config.maxRetries)
    THEN [recon EXCEPT !.pc = "done", !.retryCount = retryCount,
                       !.events = Append(@, <<"reconnectionFailed", retryCount>>)]
    ELSE [recon EXCEPT !.pc = "wait", !.retryCount = retryCount,
                       !.delays = Append(@, DelayOf(config, retryCount)),
                       !.events = Append(@, <<"reconnectionAttempt", retryCount + 1>>)]

\* The driver's pool emits 'error': lines 553-561.  Without a listener for
\* 'error' on the ConnectionPool, emit throws and line 558 is not reached.
PoolError(listening) ==
    /\ cp.recon.pc = "idle"
    /\ cp.errors = 0
    /\ cp' = [cp EXCEPT
          !.errors = 1,
          !.recon = IF listening /\ cp.reconnection.enabled = Given(TRUE)
                    THEN attemptReconnection(cp.reconnection, cp.recon, 0)
                    ELSE cp.recon]
    /\ UNCHANGED <<pool, cpRest>>

\* The timer of line 597 elapses and healthCheck() is called (line 600).
TimerElapses ==
    /\ cp.recon.pc = "wait"
    /\ cp.recon.checks < MaxAttempts
    /\ cp' = [cp EXCEPT !.recon.pc = "check", !.recon.checks = @ + 1]
    /\ UNCHANGED <<pool, cpRest>>

\* healthCheck() resolves (lines 469-483, it never rejects): lines 601-609.
HealthCheckSettles(healthy) ==
    /\ cp.recon.pc = "check"
    /\ cp' = [cp EXCEPT !.recon =
          IF healthy
          THEN [cp.recon EXCEPT !.pc = "done",
                   !.events = Append(@, <<"reconnectionSuccess", cp.recon.retryCount + 1>>)]
          ELSE attemptReconnection(cp.reconnection, cp.recon, cp.recon.retryCount + 1)]
    /\ UNCHANGED <<pool, cpRest>>

ReconnectInit ==
    /\ identityMap = NewIdentityMap(TRUE)
    /\ heap = [r \in HeapRefs |-> FreeObj]
    /\ trackedEntities = <<>>
    /\ entityMetadata = {}
    /\ connection = FALSE
    /\ isActive = TRUE
    /\ enableChangeTracking = TRUE
    /\ commit = NoCommit
    /\ sqlLog = <<>>
    /\ ret = NoCall
    /\ NoManager
    /\ cp \in { NewPool(raw) : raw \in ReconnectionInputs }
    /\ nested = NoNested

ReconnectNext ==
    \/ \E listening \in BOOLEAN : PoolError(listening)
    \/ TimerElapses
    \/ \E healthy \in BOOLEAN : HealthCheckSettles(healthy)

SpecReconnect == ReconnectInit /\ [][ReconnectNext]_vars

(***************************************************************************)
(* The ChangeTracker on its own: its public operations, and the writes and *)
(* deletions the caller makes through the wrapped instance of an entry.    *)
(* ret keeps the last call; a write keeps the property and the value.      *)
(***************************************************************************)
ctRest == <<identityMap, entityMetadata, connection, isActive, enableChangeTracking,
            commit, sqlLog, tmVars, txVars>>

\* The properties the caller writes and deletes, on the entity it writes to;
\* the other entity is tracked, marked, reset and untracked only.
WrittenProps == {"name", "role"}
Written == UowKeys[1]
TrackValues(entity) == IF entity = Written[1] THEN Values ELSE PayloadValues

CtTrack(entity, id, value, isNew) ==
    LET h1 == NewObject(heap, Region(entity, id), Payload(entity, id, value))
        t == track(trackedEntities, h1, entity, id, Alloc(heap, Region(entity, id)), isNew)
    IN  /\ trackedEntities' = t.te
        /\ heap' = Sweep(t.heap, identityMap, t.te)
        /\ ret' = Call("track", entity, id, t.val, TRUE, "")
        /\ UNCHANGED ctRest

CtMarkDeleted(entity, id) ==
    LET m == markDeleted(trackedEntities, entity, id) IN
    /\ trackedEntities' = m.te
    /\ ret' = Call("markDeleted", entity, id, NoRef, m.err = "", m.err)
    /\ UNCHANGED <<heap, ctRest>>

CtWrite(entity, id, prop, value) ==
    LET i == TrackedIndex(trackedEntities, createKey(entity, id)) IN
    /\ i # 0
    /\ LET w == proxySet(trackedEntities, heap, i, prop, value) IN
       /\ trackedEntities' = w.te
       /\ heap' = w.heap
    /\ ret' = Call("write", entity, id, <<prop, value>>, TRUE, "")
    /\ UNCHANGED ctRest

CtDeleteProperty(entity, id, prop) ==
    LET i == TrackedIndex(trackedEntities, createKey(entity, id)) IN
    /\ i # 0
    /\ LET w == proxyDelete(trackedEntities, heap, i, prop) IN
       /\ trackedEntities' = w.te
       /\ heap' = w.heap
    /\ ret' = Call("deleteProperty", entity, id, <<prop, Undef>>, TRUE, "")
    /\ UNCHANGED ctRest

CtResetChanges(entity, id) ==
    LET te == resetChanges(trackedEntities, heap, entity, id) IN
    /\ trackedEntities' = te
    /\ heap' = Sweep(heap, identityMap, te)
    /\ ret' = Call("resetChanges", entity, id, NoRef, TRUE, "")
    /\ UNCHANGED ctRest

CtUntrack(entity, id) ==
    LET te == untrack(trackedEntities, entity, id) IN
    /\ trackedEntities' = te
    /\ heap' = Sweep(heap, identityMap, te)
    /\ ret' = Call("untrack", entity, id, NoRef, TRUE, "")
    /\ UNCHANGED ctRest

\* clear(): lines 641-643.
CtClear ==
    /\ trackedEntities' = <<>>
    /\ heap' = Sweep(heap, identityMap, <<>>)
    /\ ret' = Call("clear", "", UndefinedId, NoRef, TRUE, "")
    /\ UNCHANGED ctRest

CTNext ==
    \/ \E e \in UowIds, isNew \in BOOLEAN :
          \E value \in TrackValues(e[1]) : CtTrack(e[1], e[2], value, isNew)
    \/ \E e \in UowIds : CtMarkDeleted(e[1], e[2])
    \/ \E prop \in WrittenProps, value \in Values : CtWrite(Written[1], Written[2], prop, value)
    \/ \E prop \in WrittenProps : CtDeleteProperty(Written[1], Written[2], prop)
    \/ \E e \in UowIds : CtResetChanges(e[1], e[2])
    \/ \E e \in UowIds : CtUntrack(e[1], e[2])
    \/ CtClear

SpecCT == TMInit /\ [][CTNext]_vars

(***************************************************************************)
(* The wrapped instance of an entity with nested objects and arrays        *)
(* (change-tracker.test.ts 273-300):                                       *)
(*   { name, tags: [...], metadata: { flag, list: [...],                   *)
(*                                    nested: { deep: { value } } } }      *)
(* A value a field holds is a primitive, or a reference to an object with  *)
(* the number of nested proxies wrapped around it: two references are the  *)
(* same value (===) when the object and the number of wrappers agree.  A   *)
(* dotted path "a.b.c" is the sequence <<"a", "b", "c">>; changedFields is *)
(* the Set of the paths.                                                   *)
(***************************************************************************)
MaxItems == 2
MaxWraps == 1

Prim(v) == [kind |-> "prim", v |-> v, wraps |-> 0]
Reference(o, n) == [kind |-> "ref", v |-> o, wraps |-> n]

TopFields == {"name", "tags", "metadata"}
ReadBackFields == {"name", "tags"}
Arrays == {<<"tags">>, <<"metadata", "list">>}
Objects == {<<"metadata">>, <<"metadata", "nested", "deep">>}
Items == {"a", "b"}
NestedValues == {"a"}

NoWrite == [op |-> "", chain |-> <<>>, prop |-> "", current |-> FALSE]
Wrote(op, chain, prop, current) ==
    [op |-> op, chain |-> chain, prop |-> prop, current |-> current]

TrackedDocument ==
    [tracked |-> TRUE,
     top |-> [f \in TopFields |->
                 IF f = "name" THEN Prim("a") ELSE Reference(f, 0)],
     tags |-> <<"b", "a">>,
     list |-> <<>>,
     flag |-> "a",
     value |-> "a",
     changedFields |-> {},
     last |-> Wrote("track", <<>>, "", FALSE)]

\* createProxy get trap, lines 693-713: an object or an array comes back in a
\* new nested proxy, a primitive as it is.
ReadThrough(held) ==
    IF held.kind = "ref" THEN [held EXCEPT !.wraps = @ + 1] ELSE held

\* The path of the nested proxy the get trap of createProxy makes: line 706.
TopPath(prop) == <<prop>>

NestedPathOfOwner(path, prop) == path

\* The path of the nested proxy the get trap of a nested proxy makes: line 780.
NestedPath(path, prop) == Append(path, prop)

\* The path of the proxy that proxy.c1.c2...cn gives.
RECURSIVE PathOf(_)
PathOf(chain) ==
    IF Len(chain) = 1 THEN TopPath(chain[1])
    ELSE NestedPath(PathOf(SubSeq(chain, 1, Len(chain) - 1)), chain[Len(chain)])

\* The set and deleteProperty traps of a nested proxy, and the wrapper of a
\* mutating method: changedFields.add(path), lines 769, 792, 799.
NestedMarks(changedFields, path) == changedFields \cup {path}

MutatingMethods == {"push", "pop", "shift", "unshift", "splice", "sort", "reverse"}

Rank(item) == IF item = "a" THEN 1 ELSE 2

Reverse(arr) == [i \in 1..Len(arr) |-> arr[Len(arr) + 1 - i]]

\* value.apply(obj, args), line 770: push(v), pop(), shift(), unshift(v),
\* splice(1, 1), sort(), reverse().
ApplyMethod(method, arr, v) ==
    CASE method = "push" -> Append(arr, v)
      [] method = "pop" -> SubSeq(arr, 1, Len(arr) - 1)
      [] method = "shift" -> SubSeq(arr, 2, Len(arr))
      [] method = "unshift" -> <<v>> \o arr
      [] method = "splice" -> IF Len(arr) < 2 THEN arr
                              ELSE <<arr[1]>> \o SubSeq(arr, 3, Len(arr))
      [] method = "sort" -> SortSeq(arr, LAMBDA x, y : Rank(x) < Rank(y))
      [] method = "reverse" -> Reverse(arr)

ArrayAt(doc, chain) == IF chain = <<"tags">> THEN doc.tags ELSE doc.list

StoreArray(doc, chain, arr) ==
    IF chain = <<"tags">> THEN [doc EXCEPT !.tags = arr] ELSE [doc EXCEPT !.list = arr]

\* Reflect.set / Reflect.deleteProperty on the field of metadata (flag) or of
\* metadata.nested.deep (value).
StoreField(doc, chain, v) ==
    IF chain = <<"metadata">> THEN [doc EXCEPT !.flag = v] ELSE [doc EXCEPT !.value = v]

nestedRest == <<uowVars, tmVars, spVars, dbVars, sweep, pool, helpers, cp>>

\* track(): lines 497-533.
NestedTrack ==
    /\ ~nested.tracked
    /\ nested' = TrackedDocument
    /\ UNCHANGED nestedRest

\* proxy[prop] = value: the set trap of createProxy, lines 715-737.  The value
\* is a primitive, or what proxy[prop] gave.
NestedTopSet(prop, value) ==
    /\ nested.tracked
    /\ value.wraps <= MaxWraps
    /\ nested' =
          [nested EXCEPT
             !.changedFields =
                 IF ProxySetMarks(nested.top[prop], value)
                 THEN @ \cup {TopPath(prop)} ELSE @,
             !.top[prop] = value,
             !.last = Wrote("set", <<>>, prop, value = ReadThrough(nested.top[prop]))]
    /\ UNCHANGED nestedRest

\* proxy.c1...cn.field = v, or proxy.c1...cn[0] = v: the set trap of the
\* nested proxy, lines 789-795.
NestedSet(chain, v) ==
    /\ nested.tracked
    /\ chain \in Arrays => Len(ArrayAt(nested, chain)) > 0
    /\ LET stored == IF chain \in Arrays
                     THEN StoreArray(nested, chain, [ArrayAt(nested, chain) EXCEPT ![1] = v])
                     ELSE StoreField(nested, chain, v)
       IN  nested' =
              [stored EXCEPT
                 !.changedFields = NestedMarks(@, PathOf(chain)),
                 !.last = Wrote("set", chain, "", FALSE)]
    /\ UNCHANGED nestedRest

\* delete proxy.c1...cn.field: the deleteProperty trap of the nested proxy,
\* lines 797-802.
NestedDelete(chain) ==
    /\ nested.tracked
    /\ nested' =
          [StoreField(nested, chain, Undef) EXCEPT
             !.changedFields = NestedMarks(@, PathOf(chain)),
             !.last = Wrote("delete", chain, "", FALSE)]
    /\ UNCHANGED nestedRest

\* proxy.c1...cn.method(v): the wrapper of a mutating method, lines 765-773.
NestedArrayMethod(chain, method, v) ==
    /\ nested.tracked
    /\ Len(ApplyMethod(method, ArrayAt(nested, chain), v)) <= MaxItems
    /\ nested' =
          [StoreArray(nested, chain, ApplyMethod(method, ArrayAt(nested, chain), v)) EXCEPT
             !.changedFields = NestedMarks(@, PathOf(chain)),
             !.last = Wrote(method, chain, "", FALSE)]
    /\ UNCHANGED nestedRest

\* resetChanges(): changedFields.clear(), lines 610-623.
NestedResetChanges ==
    /\ nested.tracked
    /\ nested' = [nested EXCEPT !.changedFields = {},
                                !.last = Wrote("resetChanges", <<>>, "", FALSE)]
    /\ UNCHANGED nestedRest

NestedNext ==
    \/ NestedTrack
    \/ \E v \in Items : NestedTopSet("name", Prim(v))
    \/ \E prop \in ReadBackFields : NestedTopSet(prop, ReadThrough(nested.top[prop]))
    \/ \E chain \in Arrays \cup Objects, v \in NestedValues : NestedSet(chain, v)
    \/ \E chain \in Objects : NestedDelete(chain)
    \/ \E chain \in Arrays, method \in MutatingMethods, v \in NestedValues :
          NestedArrayMethod(chain, method, v)
    \/ NestedResetChanges

SpecNested == TMInit /\ [][NestedNext]_vars

(***************************************************************************)
(* A Unit of Work that handles an entity with a composite key, addressed   *)
(* with the fields of the id in either order (identity-map.test.ts 66-78). *)
(***************************************************************************)
TenantKeyReordered == ObjectId(<< <<"userId", "n100">>, <<"tenantId", "n1">> >>)
TenantIds == {TenantKey, TenantKeyReordered}

KeysNext ==
    \/ RegisterEntity("TenantUser")
    \/ \E v \in PayloadValues : Get("TenantUser", TenantKey, TRUE, v)
    \/ \E id \in TenantIds : Get("TenantUser", id, FALSE, "a")
    \/ \E v \in PayloadValues : Create("TenantUser", TenantKey, v)
    \/ \E id \in TenantIds : Delete("TenantUser", id)
    \/ \E v \in Values : Write("TenantUser", TenantKey, v)
    \/ Clear
    \/ Collect(createCompositeKey("TenantUser", TenantKey))

SpecKeys == Init /\ [][KeysNext]_vars

(***************************************************************************)
(* A Unit of Work whose caller does not wait for commit(): commit() is     *)
(* async and gives up control at every statement it awaits (lines 208,     *)
(* 217-231, 232), so the caller's code can write to a tracked entity,      *)
(* delete it or create another one between two statements of a commit.     *)
(* "role" is a property of User that has no column.                        *)
(***************************************************************************)
Committing == commit.pc \in {"begin", "work", "commit", "rollback"}

\* proxy[prop] = value with no commit in flight.
WriteProp(entity, id, prop, value) ==
    LET i == TrackedIndex(trackedEntities, createKey(entity, id)) IN
    /\ SyncCall
    /\ i # 0
    /\ LET w == proxySet(trackedEntities, heap, i, prop, value) IN
       /\ trackedEntities' = w.te
       /\ heap' = w.heap
    /\ ret' = NoCall
    /\ UNCHANGED identityMap
    /\ UowFrame

\* proxy[prop] = value between two statements of a commit.
WriteInFlight(entity, id, prop, value) ==
    LET i == TrackedIndex(trackedEntities, createKey(entity, id)) IN
    /\ Committing
    /\ i # 0
    /\ LET w == proxySet(trackedEntities, heap, i, prop, value) IN
       /\ trackedEntities' = w.te
       /\ heap' = w.heap
    /\ UNCHANGED <<identityMap, commit, sqlLog, ret>>
    /\ UowFrame

\* delete() between two statements of a commit.
DeleteInFlight(entity, id) ==
    /\ Committing
    /\ Returns("delete", entity, id,
               uowDelete(identityMap, heap, trackedEntities, entity, id))
    /\ UNCHANGED <<commit, sqlLog>>
    /\ UowFrame

\* create() between two statements of a commit.
CreateInFlight(entity, id, value) ==
    /\ Committing
    /\ Returns("create", entity, id,
               uowCreate(identityMap, heap, trackedEntities, enableChangeTracking,
                         entity, Payload(entity, id, value)))
    /\ UNCHANGED <<commit, sqlLog>>
    /\ UowFrame

Other == UowKeys[2]

FlightNext ==
    \/ \E e \in OneId, v \in PayloadValues : Get(e[1], e[2], TRUE, v)
    \/ \E e \in OneId, v \in PayloadValues : Create(e[1], e[2], v)
    \/ \E e \in OneId : Delete(e[1], e[2])
    \/ \E e \in OneId, prop \in WrittenProps, v \in Values : WriteProp(e[1], e[2], prop, v)
    \/ \E e \in OneId, v \in Values : WriteInFlight(e[1], e[2], "name", v)
    \/ \E e \in OneId : DeleteInFlight(e[1], e[2])
    \/ \E v \in PayloadValues : CreateInFlight(Other[1], Other[2], v)
    \/ CommitCall
    \/ CommitBegin
    \/ CommitWork
    \/ CommitEnd
    \/ CommitRollback

SpecFlight == BatchInit /\ [][FlightNext]_vars

(***************************************************************************)
(* Properties.                                                             *)
(***************************************************************************)
InFlight(c) == c.pc \in {"begin", "work", "commit", "rollback"}

\* C1: a commit() one of whose statements fails takes no step that changes the
\* tracker, the identity map or an entity: the pending changes stay the ones
\* read at the call, the last statement of a rejected commit is ROLLBACK, it
\* rejects with an error, and the Unit of Work stays open with its connection.
C1_FailedCommitKeepsTrackedState ==
    [][ (InFlight(commit) /\ commit'.pc \in {"rollback", "rejected"})
        => /\ trackedEntities' = trackedEntities
           /\ identityMap' = identityMap
           /\ heap' = heap
           /\ getChanges(trackedEntities') = commit'.changes
           /\ isActive' /\ connection'
           /\ commit'.error # ""
           /\ commit'.pc = "rejected" =>
                 /\ sqlLog'[Len(sqlLog')].verb = "ROLLBACK"
                 /\ commit'.thrown # "" ]_vars

\* The second statement of a batch failed after the first went through.
C1_Witness ==
    /\ commit.pc = "rejected"
    /\ commit.error \in {"UPDATE", "INSERT"}
    /\ Len(sqlLog) = 4
    /\ Len(getChanges(trackedEntities)) = 2
    /\ getChanges(trackedEntities) = commit.changes

VerbRank(verb) ==
    CASE verb = "BEGIN" -> 0
      [] verb = "DELETE" -> 1
      [] verb = "UPDATE" -> 2
      [] verb = "INSERT" -> 3
      [] verb = "COMMIT" -> 4
      [] OTHER -> 5

TypeVerb(type) ==
    CASE type = "deleted" -> "DELETE"
      [] type = "updated" -> "UPDATE"
      [] OTHER -> "INSERT"

\* C2: the statements of a commit() come in the order BEGIN, DELETEs, UPDATEs,
\* INSERTs, COMMIT: BEGIN is first and COMMIT comes once, after every statement
\* of a change; a statement already issued never belongs after a change that
\* is still waiting; and a commit that resolved issued one statement for each
\* change.
C2_CommitOrder ==
    /\ sqlLog # <<>> => sqlLog[1].verb = "BEGIN"
    /\ \A i, j \in 1..Len(sqlLog) :
         i < j => /\ VerbRank(sqlLog[i].verb) <= VerbRank(sqlLog[j].verb)
                  /\ sqlLog[i].verb \in {"BEGIN", "COMMIT"}
                        => VerbRank(sqlLog[i].verb) < VerbRank(sqlLog[j].verb)
    /\ \A i \in 1..Len(sqlLog) : \A q \in 1..Len(commit.queue) :
         commit.pc = "work"
            => VerbRank(sqlLog[i].verb)
                  <= VerbRank(TypeVerb(commit.changes[commit.queue[q]].type))
    /\ commit.pc = "resolved" /\ commit.changes # <<>> =>
         /\ Len(sqlLog) = Len(commit.changes) + 2
         /\ sqlLog[Len(sqlLog)].verb = "COMMIT"
         /\ \A n \in 1..Len(commit.changes) : \E i \in 1..Len(sqlLog) :
              /\ sqlLog[i].change = n
              /\ sqlLog[i].verb = TypeVerb(commit.changes[n].type)

\* A commit resolved whose INSERT belongs to the entity tracked first and whose
\* DELETE to the entity tracked after it.
C2_Witness ==
    /\ commit.pc = "resolved"
    /\ Len(commit.changes) = 2
    /\ commit.changes[1].type = "created"
    /\ commit.changes[2].type = "deleted"
    /\ sqlLog[2].verb = "DELETE"
    /\ sqlLog[3].verb = "INSERT"

\* C3: an entry of the identity map answers set() with the stored instance and
\* stays what get() returns until a delete, clearEntity or clear removes it.
C3_EntryStaysUntilRemoved ==
    [][ \A e \in EntityIds :
          LET stored == Stored(identityMap, e[1], e[2]) IN
          stored # NoRef =>
            /\ (ret' # ret /\ ret'.op = "set" /\ ret'.entity = e[1] /\ ret'.id = e[2])
                  => ret'.val = stored
            /\ \/ Stored(identityMap', e[1], e[2]) = stored
               \/ ret' # ret /\ ret'.op \in {"delete", "clearEntity", "clear"} ]_vars

\* C4: create() for a registered kind on a key that is mapped returns the
\* instance mapped, leaves its field values, the identity map and the tracker
\* as they were, and a get() of the key right after returns that instance too.
C4_CreateOnMappedKey ==
    [][ \A e \in OneId, v \in PayloadValues :
          ( /\ Create(e[1], e[2], v)
            /\ isActive
            /\ e[1] \in entityMetadata
            /\ Stored(identityMap, e[1], e[2]) # NoRef )
          => /\ ret'.err = ""
             /\ ret'.val = Stored(identityMap, e[1], e[2])
             /\ DataOf(heap', ret'.val) = DataOf(heap, ret'.val)
             /\ trackedEntities' = trackedEntities
             /\ Stored(identityMap', e[1], e[2]) = ret'.val
             /\ uowGet(identityMap', heap', trackedEntities', enableChangeTracking,
                       e[1], e[2], FALSE, NoData).val = ret'.val ]_vars

\* create() returned an instance whose value is not the payload's.
C4_Witness ==
    /\ ret.op = "create"
    /\ ret.err = ""
    /\ ret.val # NoRef
    /\ DataOf(heap, ret.val)["name"] = "b"
    /\ Len(trackedEntities) = 1
    /\ Stored(identityMap, ret.entity, ret.id) = ret.val

\* C5: persist() on a key that is not mapped returns the reference a get() or a
\* create() of that key returns right after it.
C5_PersistReturnsMappedInstance ==
    [][ \A e \in OneId, v \in PayloadValues :
          ( /\ Persist(e[1], e[2], v)
            /\ isActive
            /\ e[1] \in entityMetadata
            /\ Stored(identityMap, e[1], e[2]) = NoRef )
          => /\ ret'.err = ""
             /\ uowGet(identityMap', heap', trackedEntities', enableChangeTracking,
                       e[1], e[2], FALSE, NoData).val = ret'.val
             /\ uowCreate(identityMap', heap', trackedEntities', enableChangeTracking,
                          e[1], Payload(e[1], e[2], v)).val = ret'.val ]_vars

\* C6: the step that resolves a commit() leaves no pending change; an entity
\* committed as created or updated keeps its identity-map entry and its
\* tracker proxy, with no changed field and isNew cleared; an entity committed
\* as deleted is in neither the identity map nor the tracker.
C6_ResolvedCommitResets ==
    [][ (commit'.pc = "resolved" /\ commit' # commit)
        => /\ getChanges(trackedEntities') = <<>>
           /\ \A n \in 1..Len(commit.changes) :
                LET ch == commit.changes[n]
                    was == TrackedIndex(trackedEntities, createKey(ch.entity, ch.id))
                    now == TrackedIndex(trackedEntities', createKey(ch.entity, ch.id))
                IN  IF ch.type = "deleted"
                    THEN /\ now = 0
                         /\ Stored(identityMap', ch.entity, ch.id) = NoRef
                         /\ uowGet(identityMap', heap', trackedEntities',
                                   enableChangeTracking, ch.entity, ch.id, FALSE,
                                   NoData).val = NoRef
                    ELSE /\ now # 0
                         /\ trackedEntities'[now].changedFields = <<>>
                         /\ ~trackedEntities'[now].isNew
                         /\ trackedEntities'[now].proxy = trackedEntities[was].proxy
                         /\ Stored(identityMap', ch.entity, ch.id)
                               = Stored(identityMap, ch.entity, ch.id) ]_vars

\* A created entity was committed and is mapped to the instance it had at the call.
C6_Witness ==
    /\ commit.pc = "resolved"
    /\ Len(commit.changes) = 1
    /\ commit.changes[1].type = "created"
    /\ commit.mapped[1] # NoRef
    /\ Stored(identityMap, commit.changes[1].entity, commit.changes[1].id) = commit.mapped[1]
    /\ ~trackedEntities[1].isNew

\* C7: a commit() that had a statement fail rejects with the error of that
\* statement, whatever ROLLBACK answers, and never resolves.
C7_RejectsWithOriginalError ==
    /\ commit.error # "" => commit.pc # "resolved"
    /\ commit.pc = "rejected" /\ commit.error # "" => commit.thrown = commit.error

\* The columns of the changed properties that have one, in the order of S.
SetFields(change) ==
    SelectSeq(change.changedFields,
              LAMBDA f : ColumnOf(MetadataOf(change.entity).columns, f) # Undef)

\* C8: the UPDATE of a change whose changed properties are S has one SET clause
\* for each property of S that has a column and no other, a WHERE clause on the
\* primary-key column(s) and nothing else, placeholders $1, $2, ... through SET
\* and then WHERE, and as parameters the current values of the properties set,
\* then the key value(s).
C8_UpdateStatement ==
    ret.op = "executeUpdate" =>
      LET change == commit.changes[1]
          md == MetadataOf(change.entity)
          data == DataOf(heap, change.currentData)
          fields == SetFields(change)
          k == Len(fields)
      IN  IF k = 0 THEN sqlLog = <<>>
          ELSE /\ Len(sqlLog) = 1
               /\ LET u == sqlLog[1] IN
                  /\ u.verb = "UPDATE" /\ u.table = md.table
                  /\ Len(u.set) = k
                  /\ \A i \in 1..k : u.set[i] = <<ColumnOf(md.columns, fields[i]), i>>
                  /\ Len(u.where) = Len(md.primaryKey)
                  /\ \A j \in 1..Len(md.primaryKey) :
                       u.where[j] = <<ColumnOf(md.columns, md.primaryKey[j]), k + j>>
                  /\ Len(u.values) = k + Len(md.primaryKey)
                  /\ \A i \in 1..k : u.values[i] = data[fields[i]]
                  /\ \A j \in 1..Len(md.primaryKey) :
                       u.values[k + j] = IF md.composite
                                         THEN IdField(change.id, md.primaryKey[j])
                                         ELSE change.id.v

\* Two properties set, one changed property without a column, a composite key.
C8_Witness ==
    /\ ret.op = "executeUpdate"
    /\ Len(sqlLog) = 1
    /\ Len(sqlLog[1].set) = 2
    /\ Len(sqlLog[1].where) = 2
    /\ Len(commit.changes[1].changedFields) = 3

\* C9, as stated: commit() on an open Unit of Work with no pending change
\* resolves with zero counts, issues no statement and changes no tracked state.
C9_EmptyCommitIsNoOp ==
    [][ (CommitCall /\ isActive /\ getChanges(trackedEntities) = <<>>)
        => /\ commit'.pc = "resolved"
           /\ commit'.created = 0 /\ commit'.updated = 0 /\ commit'.deleted = 0
           /\ sqlLog' = <<>>
           /\ UNCHANGED <<identityMap, heap, trackedEntities>> ]_vars

\* C9, amended: the same, for a Unit of Work that has a connection set.
C9_EmptyCommitWithConnection ==
    [][ (CommitCall /\ isActive /\ connection /\ getChanges(trackedEntities) = <<>>)
        => /\ commit'.pc = "resolved"
           /\ commit'.created = 0 /\ commit'.updated = 0 /\ commit'.deleted = 0
           /\ sqlLog' = <<>>
           /\ UNCHANGED <<identityMap, heap, trackedEntities>> ]_vars

\* commit() resolved at once while an unchanged entity was tracked.
C9_Witness ==
    /\ commit.pc = "resolved"
    /\ ret.op = "commit"
    /\ commit.changes = <<>>
    /\ sqlLog = <<>>
    /\ Len(trackedEntities) = 1
    /\ connection

\* The statements a root transaction is to open with.  The deferrable
\* statement goes with the deferrable option alone, or only with read-only too.
ExpectedBegin(options, deferrableNeedsReadOnly) ==
    << <<"BEGIN", <<>> >> >>
    \o (IF options.isolationLevel # Unset
        THEN << <<"SET TRANSACTION ISOLATION LEVEL", <<options.isolationLevel>> >> >>
        ELSE <<>>)
    \o (IF options.readOnly THEN << <<"SET TRANSACTION READ ONLY", <<>> >> >> ELSE <<>>)
    \o (IF options.deferrable /\ (deferrableNeedsReadOnly => options.readOnly)
        THEN << <<"SET TRANSACTION DEFERRABLE", <<>> >> >> ELSE <<>>)

Settled(k) == k.pc \in {"resolved", "rejected"}

RootAttempt(k, deferrableNeedsReadOnly) ==
    LET exp == ExpectedBegin(k.options, deferrableNeedsReadOnly)
        n == Len(exp)
        log == k.log
    IN  /\ log # <<>> => log[1].verb = "BEGIN"
        /\ k.fn # "" =>
              /\ Len(log) >= n
              /\ \A i \in 1..n : log[i] = Query(exp[i][1], exp[i][2], TRUE)
        /\ k.fn = "resolved" /\ k.pc # "commit" =>
              /\ Len(log) > n
              /\ log[n + 1].verb = "COMMIT"
        /\ k.pc = "resolved" =>
              /\ k.fn = "resolved"
              /\ Len(log) = n + 1
              /\ log[n + 1] = Query("COMMIT", <<>>, TRUE)
              /\ k.result = "result"
        /\ k.fn = "rejected" /\ k.pc # "rollback" =>
              /\ Len(log) = n + 1
              /\ log[n + 1].verb = "ROLLBACK"
              /\ k.error = k.fnError
              /\ k.pc = "rejected" => k.thrown = k.fnError
        /\ k.fn = "rejected" => k.pc # "resolved"
        /\ \A i, j \in 1..Len(log) :
              i < j /\ log[i].verb = "COMMIT" /\ log[i].ok => log[j].verb # "ROLLBACK"
        /\ (Settled(k) \/ k.pc = "backoff") => TxIndex(activeTransactions, k.tx) = 0

\* C10, as stated: an attempt of withTransaction() at level 0 sends BEGIN and
\* the statement of each of the isolation-level, read-only and deferrable
\* options that is set, all before the callback runs; a callback that resolves
\* is followed by COMMIT and the call resolves with its result; a callback that
\* rejects is followed by ROLLBACK and its error is the one thrown; no ROLLBACK
\* follows a COMMIT that succeeded; a settled call's transaction is not active.
C10_RootTransaction ==
    \A c \in CallIds :
       calls[c].pc # "idle" /\ calls[c].level = 0 => RootAttempt(calls[c], FALSE)

\* C10, amended: the same, the deferrable statement being sent only when the
\* read-only option is set as well.
C10_RootTransactionDeferrable ==
    \A c \in CallIds :
       calls[c].pc # "idle" /\ calls[c].level = 0 => RootAttempt(calls[c], TRUE)

\* One root call resolved with all three options set, another rejected with its
\* callback's error although its ROLLBACK failed.
C10_Witness ==
    \E c, d \in CallIds :
       /\ calls[c].level = 0 /\ calls[c].pc = "resolved"
       /\ Len(calls[c].log) = 5
       /\ calls[d].level = 0 /\ calls[d].pc = "rejected"
       /\ calls[d].thrown = "E_fn"
       /\ calls[d].log[Len(calls[d].log)] = Query("ROLLBACK", <<>>, FALSE)

\* The number of retries withTransaction() is to allow: the one given, 3 by
\* default when retryOnDeadlock is set.
AllowedRetries(options) ==
    IF ~options.retryOnDeadlock THEN 0
    ELSE IF options.maxRetries # NoNumber THEN options.maxRetries[1] ELSE 3

DeadlockCodes == {"40P01", "40001"}

\* C12: with retryOnDeadlock set, an attempt is made again only after an attempt
\* that failed with a deadlock code and was rolled back (its transaction is
\* not active any more); there are never more than maxRetries + 1 attempts; a
\* call that resolves at its k-th attempt reports retries = k - 1; a call whose
\* attempts all deadlocked rejects with the deadlock error after exactly
\* maxRetries retries.
C12_DeadlockRetry ==
    \A c \in CallIds :
       LET k == calls[c] IN
       k.options.retryOnDeadlock =>
          /\ k.retries <= AllowedRetries(k.options)
          /\ k.fnRuns <= AllowedRetries(k.options) + 1
          /\ k.pc = "backoff" =>
                /\ k.error \in DeadlockCodes
                /\ k.rollbacks = k.retries
                /\ TxIndex(activeTransactions, k.tx) = 0
          /\ k.pc = "resolved" =>
                /\ k.resultRetries = k.fnRuns - 1
                /\ k.resultRetries = k.rollbacks
          /\ (k.pc = "rejected" /\ k.thrown \in DeadlockCodes) =>
                /\ k.retries = AllowedRetries(k.options)
                /\ k.fnRuns = AllowedRetries(k.options) + 1
                /\ k.rollbacks = k.fnRuns

\* Two deadlocks, then success at the third attempt, under the default of 3;
\* and a call that used up its retries.
C12_Witness ==
    \E c, d \in CallIds :
       /\ calls[c].options.retryOnDeadlock /\ calls[c].options.maxRetries = NoNumber
       /\ calls[c].pc = "resolved" /\ calls[c].resultRetries = 2
       /\ calls[d].options.retryOnDeadlock
       /\ calls[d].pc = "rejected" /\ calls[d].thrown = "40P01"

\* C13: a failure is retried neither when its error is not a deadlock code (the
\* timeout error included) nor when retryOnDeadlock is not set, whatever
\* maxRetries says: the callback has run once at most, exactly once when it is
\* what failed, one rollback was sent, and the error is the one thrown.
C13_NoRetryOtherwise ==
    \A c \in CallIds :
       LET k == calls[c] IN
       /\ k.pc = "backoff" => k.options.retryOnDeadlock /\ k.error \in DeadlockCodes
       /\ ~k.options.retryOnDeadlock =>
             /\ k.retries = 0 /\ k.fnRuns <= 1 /\ k.rollbacks <= 1
             /\ k.pc = "rejected" =>
                   /\ k.rollbacks = 1
                   /\ k.thrown = k.error
                   /\ k.fn \in {"rejected", "timedout"} => k.fnRuns = 1
       /\ (k.pc = "rejected" /\ k.thrown \notin DeadlockCodes) =>
             /\ k.thrown = k.error
             /\ k.fn = "timedout" => k.thrown = "Timeout"
             /\ k.rollbacks = k.retries + 1

\* A timeout under retryOnDeadlock, and a deadlock under maxRetries alone: both
\* rejected after one run of the callback.
C13_Witness ==
    \E c, d \in CallIds :
       /\ calls[c].options.retryOnDeadlock /\ calls[c].pc = "rejected"
       /\ calls[c].thrown = "Timeout" /\ calls[c].fnRuns = 1
       /\ ~calls[d].options.retryOnDeadlock /\ calls[d].options.maxRetries = <<1>>
       /\ calls[d].pc = "rejected" /\ calls[d].thrown = "40P01" /\ calls[d].fnRuns = 1

\* C14: when the timer of options.timeout has fired and the callback had not
\* resolved by then, the attempt sends no COMMIT and does not resolve; once it
\* has settled it is rejected with the timeout error, its last statement is a
\* rollback, and its transaction is not active.
C14_TimeoutRollsBack ==
    \A c \in CallIds :
       LET k == calls[c] IN
       (k.timer = "fired" \/ k.fn = "timedout") /\ k.fn # "" =>
          /\ \A i \in 1..Len(k.log) : k.log[i].verb \notin {"COMMIT", "RELEASE SAVEPOINT"}
          /\ k.pc # "resolved"
          /\ k.pc = "rejected" =>
                /\ k.thrown = "Timeout"
                /\ k.log[Len(k.log)].verb =
                      IF k.level = 0 THEN "ROLLBACK" ELSE "ROLLBACK TO SAVEPOINT"
                /\ TxIndex(activeTransactions, k.tx) = 0

\* Depth of a call: the number of transactions whose callbacks enclose it.
RECURSIVE Enclosing(_)
Enclosing(c) == IF calls[c].parent = 0 THEN 0 ELSE 1 + Enclosing(calls[c].parent)

\* C19: the level of a transaction is the number of transactions that enclose
\* it; a call made outside every callback opens at level 0 with BEGIN, also
\* while another call of the manager is in flight.
C19_LevelIsParentCount ==
    \A c \in CallIds :
       LET k == calls[c] IN
       (k.pc \notin {"idle", "backoff"}) =>
          /\ k.level = Enclosing(c)
          /\ (k.parent = 0 /\ k.log # <<>>) => k.log[1].verb = "BEGIN"

\* C11: a withTransaction() call made inside a callback, at level N > 0, opens
\* with SAVEPOINT sp_level_N and sends neither BEGIN nor COMMIT nor ROLLBACK;
\* when it has resolved its last statement is RELEASE SAVEPOINT sp_level_N; when
\* its callback rejected its last statement is ROLLBACK TO SAVEPOINT sp_level_N
\* and the callback's error is thrown; the transaction of the enclosing
\* callback is still active.  Savepoint calls may have been made meanwhile.
C11_NestedUsesSavepoint ==
    \A c \in CallIds :
       LET k == calls[c] IN
       (k.pc # "idle" /\ k.parent # 0 /\ k.level > 0) =>
          /\ k.log # <<>> => k.log[1].verb = "SAVEPOINT" /\ k.log[1].name = SpLevel(k.level)
          /\ \A i \in 1..Len(k.log) : k.log[i].verb \notin {"BEGIN", "COMMIT", "ROLLBACK"}
          /\ k.pc = "resolved" =>
                /\ k.fn = "resolved"
                /\ k.log[Len(k.log)].verb = "RELEASE SAVEPOINT"
                /\ k.log[Len(k.log)].name = SpLevel(k.level)
          /\ (k.pc = "rejected" /\ k.fn = "rejected") =>
                /\ k.log[Len(k.log)].verb = "ROLLBACK TO SAVEPOINT"
                /\ k.log[Len(k.log)].name = SpLevel(k.level)
                /\ k.thrown = k.fnError
          /\ calls[k.parent].pc = "fn" => TxIndex(activeTransactions, calls[k.parent].tx) # 0

IsGenerated(name) == \E n \in 1..(MaxSavepointId + 1) : name = <<"sp", n>>

\* The savepoint names of all active transactions, one after the other.
AllSavepoints ==
    LET RECURSIVE Cat(_)
        Cat(i) == IF i = 0 THEN <<>> ELSE Cat(i - 1) \o activeTransactions[i].savepoints
    IN  Cat(Len(activeTransactions))

\* What a savepoint call that resolved has done to the lists.
SavepointEffect(k) ==
    LET i == TxIndex(activeTransactions, k.tx)
        old == activeTransactions[i].savepoints
        new == activeTransactions'[i].savepoints
    IN  i # 0 =>
        /\ Len(activeTransactions') = Len(activeTransactions)
        /\ \A j \in 1..Len(activeTransactions) :
              j # i => activeTransactions'[j] = activeTransactions[j]
        /\ activeTransactions'[i] = [activeTransactions[i] EXCEPT !.savepoints = new]
        /\ k.kind = "create" =>
              /\ Len(new) = Len(old) + 1
              /\ \A j \in 1..Len(old) : new[j] = old[j]
              /\ new[Len(new)] = savepointCall'.result
              /\ new[Len(new)] = k.name
        /\ k.kind = "rollbackTo" =>
              /\ \E j \in 1..Len(old) :
                    /\ old[j] = k.name
                    /\ \A h \in 1..(j - 1) : old[h] # k.name
                    /\ Len(new) = j
                    /\ \A h \in 1..j : new[h] = old[h]
        /\ k.kind = "release" =>
              /\ Len(new) = Len(old) - 1
              /\ \E j \in 1..Len(old) :
                    /\ old[j] = k.name
                    /\ \A h \in 1..(j - 1) : new[h] = old[h]
                    /\ \A h \in j..Len(new) : new[h] = old[h + 1]

\* C16: a createSavepoint that resolves has appended the name it returns to the
\* end of its transaction's list; a rollbackToSavepoint that resolves keeps the
\* list up to the named savepoint and removes all that follow; a
\* releaseSavepoint that resolves removes the named savepoint alone; no other
\* transaction changes; and no generated name is in the lists twice.
C16_SavepointList ==
    /\ [][ (savepointCall.pc = "query" /\ savepointCall'.pc = "resolved")
              => SavepointEffect(savepointCall) ]_vars
    /\ [](\A i, j \in 1..Len(AllSavepoints) :
             (i < j /\ IsGenerated(AllSavepoints[i])) => AllSavepoints[i] # AllSavepoints[j])

\* A rollbackToSavepoint that resolved and left one savepoint, after two names
\* were generated, while two transactions are active.
C16_Witness ==
    /\ savepointCall.kind = "rollbackTo" /\ savepointCall.pc = "resolved"
    /\ nextSavepointId = 3
    /\ \E i \in 1..Len(activeTransactions) : Len(activeTransactions[i].savepoints) = 1
    /\ Len(activeTransactions) = 2

\* C17: a savepoint call for a transaction id that is not active throws "No
\* active transaction found"; a rollbackToSavepoint or releaseSavepoint sends
\* its statement only for a name that is in the list of an active transaction
\* and otherwise throws "Savepoint not found"; a call that throws has sent no
\* statement and has changed no list.  A savepoint statement that fails changes
\* no list either.
C17_SavepointErrors ==
    [][ LET k == savepointCall'
            i == TxIndex(activeTransactions, k.tx)
        IN  /\ (savepointCall.pc # "query" /\ k # savepointCall) =>
                 /\ k.pc \in {"rejected", "query"}
                 /\ NoActiveTransaction(k.tx) =>
                       /\ k.pc = "rejected"
                       /\ k.thrown = "No active transaction found"
                 /\ (k.pc = "query" /\ k.kind # "create") =>
                       \E j \in 1..Len(activeTransactions[i].savepoints) :
                          activeTransactions[i].savepoints[j] = k.name
                 /\ (k.pc = "rejected" /\ ~NoActiveTransaction(k.tx)) =>
                       /\ k.kind # "create"
                       /\ k.thrown = "Savepoint not found"
                 /\ k.pc = "rejected" => k.sent = <<>> /\ UNCHANGED activeTransactions
            /\ (savepointCall.pc = "query" /\ k.pc = "rejected") =>
                  UNCHANGED activeTransactions
      ]_vars

\* A release of a name the transaction does not have, after a transaction ended.
C17_Witness ==
    /\ savepointCall.kind = "release" /\ savepointCall.pc = "rejected"
    /\ savepointCall.thrown = "Savepoint not found"
    /\ \E c \in CallIds : calls[c].pc = "resolved"
    /\ \E i \in 1..Len(activeTransactions) : Len(activeTransactions[i].savepoints) = 2

\* C15: a rollbackToSavepoint(tx, s) that resolves leaves live in the session
\* exactly the work that was live when s was created, and s is still in the
\* transaction's list and in the session; the COMMIT of the transaction makes
\* durable the work that is live then; work a rollback to a savepoint undid is
\* never durable.
C15_SavepointIsolation ==
    /\ [][ /\ (savepointCall.pc = "query" /\ savepointCall.kind = "rollbackTo"
                /\ savepointCall'.pc = "resolved") =>
                 /\ session'.live = marks.at[savepointCall.name]
                 /\ LastNamed(session'.stack, savepointCall.name) # 0
                 /\ LET i == TxIndex(activeTransactions', savepointCall.tx) IN
                    i # 0 => IndexOf(activeTransactions'[i].savepoints,
                                     savepointCall.name) # 0
           /\ (calls[1].pc = "commit" /\ calls'[1].pc = "resolved") =>
                 session'.durable = session.durable \cup session.live
         ]_vars
    /\ [](session.durable \cap marks.undone = {})

\* Work before the savepoint was committed, work after it was undone.
C15_Witness ==
    /\ calls[1].pc = "resolved"
    /\ session.durable = {1}
    /\ marks.undone = {2}

\* What one turn of rollbackAll() is to do for the transaction whose turn it is.
SweepTurn ==
    LET id == Head(sweep.queue)
        i == TxIndex(activeTransactions, id)
        sent == SubSeq(sweep'.log, Len(sweep.log) + 1, Len(sweep'.log))
    IN  /\ sweep'.pc # "rejected"
        /\ TxIndex(activeTransactions', id) = 0
        /\ \A j \in 1..Len(activeTransactions') :
              \E h \in 1..Len(activeTransactions) :
                 activeTransactions'[j] = activeTransactions[h]
        /\ i # 0 =>
              /\ Len(sent) = 1
              /\ sent[1].verb = IF activeTransactions[i].level = 0
                                THEN "ROLLBACK" ELSE "ROLLBACK TO SAVEPOINT"
              /\ ~sent[1].ok =>
                    sweep'.events = Append(sweep.events, <<"rollbackError", id>>)
        /\ sweep'.queue = Tail(sweep.queue)

C20_HelperNests ==
    \A h \in HelperIds :
       (helpers[h].parent # 0 /\ helpers[h].pc \notin {"idle", "connect"}
           /\ helpers[h].thrown # "E_connect") =>
          /\ helpers[h].level = 1
          /\ helpers[h].client = helpers[helpers[h].parent].client
          /\ helpers[h].queue # <<>> => helpers[h].queue[1][1] = "SAVEPOINT"
          /\ helpers[h].log # <<>> => helpers[h].log[1].verb = "SAVEPOINT"

PoolTxSettled(tx) == tx.pc \in {"resolved", "rejected"}

Tried(tx, verb) == \E i \in 1..Len(tx.tried) : tx.tried[i] = verb

\* The statements transaction() is to have called connection.query with, in
\* their order, given what was answered.
PoolTxOrder(tx) ==
    LET n == Len(tx.tried)
        withLevel == tx.isolationLevel # Unset
        k == IF withLevel THEN 2 ELSE 1
    IN  /\ n >= 1 => tx.tried[1] = "BEGIN"
        /\ (withLevel /\ n >= 2 /\ tx.tried[2] # "ROLLBACK") => tx.tried[2] = SetIsolation
        /\ tx.fn # "" =>
              /\ Len(tx.log) >= k
              /\ \A i \in 1..k : tx.log[i].ok /\ tx.log[i].verb = tx.tried[i]
              /\ withLevel => tx.tried[2] = SetIsolation
        /\ \A i \in 1..n :
              /\ tx.tried[i] = "COMMIT" => i = k + 1 /\ tx.fn = "resolved"
              /\ tx.tried[i] = "ROLLBACK" => i = n /\ tx.error # ""
              /\ tx.tried[i] \in {"BEGIN", SetIsolation} => i <= k
        /\ (tx.fn = "resolved" /\ tx.pc # "COMMIT") => Tried(tx, "COMMIT")

\* C21: transaction() sends BEGIN, then the isolation level when one is given,
\* before the callback; COMMIT when the callback resolves; ROLLBACK and a
\* rejection when anything fails; and the connection it acquired is handed
\* back exactly once however the call ends.
C21_PoolTransaction ==
    \A t \in PoolTxIds :
       LET tx == cp.txs[t]
           acquired == tx.lease.pc = "leased"
       IN  /\ PoolTxOrder(tx)
           /\ tx.lease.handedBack <= 1
           /\ ~acquired => tx.tried = <<>>
           /\ tx.pc = "resolved" =>
                 /\ acquired /\ tx.fn = "resolved" /\ tx.result = "result"
                 /\ tx.log[Len(tx.log)] = Query("COMMIT", <<>>, TRUE)
                 /\ ~Tried(tx, "ROLLBACK")
                 /\ tx.lease.handedBack = 1
           /\ (tx.pc = "rejected" /\ acquired) =>
                 /\ tx.tried[Len(tx.tried)] = "ROLLBACK"
                 /\ tx.thrown # ""
                 /\ tx.lease.last = "answered" => tx.thrown = tx.error
                 /\ tx.lease.handedBack = 1
           /\ (acquired /\ tx.error # "" /\ tx.pc # "ROLLBACK") => tx.pc = "rejected"

\* ROLLBACK itself failed after a failed COMMIT, and the connection is back.
C21_Witness ==
    \E t \in PoolTxIds :
       LET tx == cp.txs[t] IN
       /\ tx.pc = "rejected"
       /\ tx.isolationLevel # Unset
       /\ Len(tx.log) = 4
       /\ ~tx.log[3].ok /\ ~tx.log[4].ok
       /\ tx.lease.handedBack = 1
       /\ tx.lease.client \notin pool

\* C22: once close() or forceClose() has set isShuttingDown, whether or not the
\* driver has drained, a getConnection() or transaction() call rejects with
\* the shutting-down error and takes no client, and isShuttingDown stays set.
C22_ShuttingDownRefuses ==
    [][ /\ cp.isShuttingDown => cp'.isShuttingDown
        /\ \A g \in LeaseIds :
              (cp.isShuttingDown /\ cp.leases[g].pc = "idle" /\ cp'.leases[g].pc # "idle") =>
                 /\ cp'.leases[g].pc = "rejected"
                 /\ cp'.leases[g].thrown = PoolShuttingDown
                 /\ cp'.leases[g].client = 0
                 /\ pool' = pool
        /\ \A t \in PoolTxIds :
              (cp.isShuttingDown /\ cp.txs[t].pc = "idle" /\ cp'.txs[t].pc # "idle") =>
                 /\ cp'.txs[t].pc = "rejected"
                 /\ cp'.txs[t].thrown = PoolShuttingDown
                 /\ cp'.txs[t].tried = <<>>
                 /\ pool' = pool
      ]_vars

\* Both calls refused while pool.end() is still pending.
C22_Witness ==
    /\ cp.closing = "draining"
    /\ \E g \in LeaseIds : cp.leases[g].thrown = PoolShuttingDown
    /\ \E t \in PoolTxIds : cp.txs[t].thrown = PoolShuttingDown
    /\ pool # {}

\* C23: query() on a released PooledConnection throws at once and is not
\* passed to the client, and the client is handed back at most once however
\* often release() and disconnect() are called.
C23_ReleasedConnection ==
    /\ [][ \A g \in LeaseIds :
              (cp.leases[g].released /\ cp'.leases[g] # cp.leases[g]) =>
                 /\ cp'.leases[g].last \in {"refused", "release", "disconnect"}
                 /\ cp'.leases[g].last = "refused" => cp'.leases[g].thrown = ReleasedError
                 /\ cp'.leases[g].handedBack = cp.leases[g].handedBack
                 /\ cp'.leases[g].released
         ]_vars
    /\ [](\A g \in LeaseIds : cp.leases[g].handedBack <= 1)
    /\ [](\A g \in LeaseIds :
             cp.leases[g].releaseCalls > 0 =>
                cp.leases[g].handedBack = 1 /\ cp.leases[g].released)

\* release() and disconnect() both called, then a query refused.
C23_Witness ==
    \E g \in LeaseIds :
       /\ cp.leases[g].releaseCalls = MaxReleaseCalls
       /\ cp.leases[g].handedBack = 1
       /\ cp.leases[g].last = "refused"

\* The terminal notifications of a reconnection sequence.
Terminal(events) ==
    { i \in 1..Len(events) : events[i][1] \in {"reconnectionSuccess", "reconnectionFailed"} }

\* C24: with the options of config.reconnection (maxRetries 5, retryDelay 1000
\* and exponential backoff by default), a reconnection sequence makes at most
\* maxRetries health checks, waits retryDelay * 2^attempt before attempt number
\* attempt (retryDelay without backoff), ends at the first healthy check with
\* reconnectionSuccess and otherwise with one reconnectionFailed after
\* maxRetries checks.
C24_ReconnectionBounded ==
    LET options == MergedReconnection(cp.raw)
        maxRetries == options.maxRetries[1]
        retryDelay == options.retryDelay[1]
        recon == cp.recon
    IN  /\ recon.checks <= maxRetries
        /\ \A i \in 1..Len(recon.delays) :
              recon.delays[i] = Given(IF options.exponentialBackoff[1]
                                      THEN retryDelay * 2^(i - 1) ELSE retryDelay)
        /\ Cardinality(Terminal(recon.events)) <= 1
        /\ recon.pc = "done" =>
              /\ Terminal(recon.events) = {Len(recon.events)}
              /\ recon.events[Len(recon.events)][1] = "reconnectionFailed" =>
                    recon.checks = maxRetries
        /\ recon.pc # "done" => Terminal(recon.events) = {}

\* The changed fields of an entry, as a set.
Fields(t) == { t.changedFields[j] : j \in 1..Len(t.changedFields) }

\* The entry of the tracker for the entity of the last call, before and after.
Before == TrackedIndex(trackedEntities, createKey(ret'.entity, ret'.id))
After == TrackedIndex(trackedEntities', createKey(ret'.entity, ret'.id))

\* A write of a field that holds a primitive to another primitive adds the
\* field to changedFields; a write of the primitive it holds adds nothing.
PrimitiveWriteMarks ==
    [][ ret'.op = "write" =>
          LET prop == ret'.val[1]
              value == ret'.val[2]
              old == DataOf(heap, trackedEntities[Before].proxy)[prop]
          IN  /\ Before # 0 /\ After # 0
              /\ DataOf(heap', trackedEntities'[After].proxy)[prop] = value
              /\ old # value => prop \in Fields(trackedEntities'[After])
              /\ old = value =>
                    Fields(trackedEntities'[After]) = Fields(trackedEntities[Before])
      ]_vars

\* After name was changed, role was written to the value it had: only name
\* is marked.
PrimitiveWriteWitness ==
    /\ ret.op = "write"
    /\ ret.val[1] = "role"
    /\ LET i == TrackedIndex(trackedEntities, createKey(ret.entity, ret.id)) IN
       /\ i # 0
       /\ trackedEntities[i].changedFields = <<"name">>
       /\ DataOf(heap, trackedEntities[i].proxy)["role"] = ret.val[2]

\* C26: while an entry stays in the tracker, a step that is not a resetChanges
\* of its entity removes no path from its changedFields, and a resetChanges
\* empties it.
C26_ChangedFieldsGrow ==
    [][ \A e \in UowIds :
          LET i == TrackedIndex(trackedEntities, createKey(e[1], e[2]))
              k == TrackedIndex(trackedEntities', createKey(e[1], e[2]))
          IN  (i # 0 /\ k # 0) =>
                 IF ret'.op = "resetChanges" /\ ret'.entity = e[1]
                 THEN trackedEntities'[k].changedFields = <<>>
                 ELSE Fields(trackedEntities[i]) \subseteq Fields(trackedEntities'[k])
      ]_vars

\* The baseline value was written back, and the field is still marked.
C26_Witness ==
    /\ ret.op = "write"
    /\ ret.val[1] = "name"
    /\ LET i == TrackedIndex(trackedEntities, createKey(ret.entity, ret.id)) IN
       /\ i # 0
       /\ "name" \in Fields(trackedEntities[i])
       /\ trackedEntities[i].originalData["name"] = ret.val[2]
       /\ DataOf(heap, trackedEntities[i].proxy)["name"] = ret.val[2]

\* C28: track() for a key that is tracked returns the proxy of the entry and
\* changes neither the tracker nor the tracked object.
C28_TrackIdempotent ==
    [][ (ret'.op = "track" /\ Before # 0) =>
          /\ trackedEntities' = trackedEntities
          /\ ret'.val = trackedEntities[Before].proxy
          /\ DataOf(heap', ret'.val) = DataOf(heap, ret'.val)
      ]_vars

\* track() has returned for an entry that is marked deleted and has changes.
C28_Witness ==
    /\ ret.op = "track"
    /\ LET i == TrackedIndex(trackedEntities, createKey(ret.entity, ret.id)) IN
       /\ i # 0
       /\ ret.val = trackedEntities[i].proxy
       /\ trackedEntities[i].isDeleted
       /\ trackedEntities[i].changedFields # <<>>

\* The kind of change of an entry: deleted, otherwise created, otherwise
\* updated, otherwise none.
Deleted(t) == t.isDeleted
Created(t) == ~t.isDeleted /\ t.isNew
Updated(t) == ~t.isDeleted /\ ~t.isNew /\ t.changedFields # <<>>
Tracked(P(_)) == Cardinality({ i \in 1..Len(trackedEntities) : P(trackedEntities[i]) })

\* C29: getChanges() has one entry for each tracked entity that is deleted,
\* created or updated, of that type, and none for the others; getStats()
\* counts the same kinds, and total is their sum with the unchanged ones.
C29_ChangesPartition ==
    LET changes == getChanges(trackedEntities)
        stats == getStats(trackedEntities)
        Of(t) == { j \in 1..Len(changes) :
                     changes[j].entity = t.entity /\ changes[j].id = t.id }
    IN  /\ \A i \in 1..Len(trackedEntities) :
              LET t == trackedEntities[i] IN
              /\ Cardinality(Of(t)) = IF Deleted(t) \/ Created(t) \/ Updated(t) THEN 1 ELSE 0
              /\ \A j \in Of(t) :
                    changes[j].type = IF Deleted(t) THEN "deleted"
                                      ELSE IF Created(t) THEN "created" ELSE "updated"
        /\ \A j \in 1..Len(changes) :
              \E i \in 1..Len(trackedEntities) : j \in Of(trackedEntities[i])
        /\ stats.deleted = Tracked(Deleted)
        /\ stats.created = Tracked(Created)
        /\ stats.updated = Tracked(Updated)
        /\ stats.total = Len(trackedEntities)
        /\ stats.total = stats.created + stats.updated + stats.deleted + stats.unchanged

\* One entity new and deleted, the other updated.
C29_Witness ==
    /\ Len(trackedEntities) = 2
    /\ \E i, k \in 1..2 :
          /\ trackedEntities[i].isNew /\ trackedEntities[i].isDeleted
          /\ Updated(trackedEntities[k])

\* C30: resetChanges() of a tracked entity that is not deleted takes the live
\* values as the baseline, empties changedFields and clears isNew, so that
\* hasChanges() is false; a deleted entity leaves the tracker; on a key that is
\* not tracked nothing changes.
C30_ResetChanges ==
    [][ ret'.op = "resetChanges" =>
          IF Before = 0 THEN trackedEntities' = trackedEntities
          ELSE IF trackedEntities[Before].isDeleted
          THEN /\ After = 0
               /\ trackedEntities' = RemoveAt(trackedEntities, Before)
               /\ ~hasChanges(trackedEntities', ret'.entity, ret'.id)
          ELSE /\ After = Before
               /\ trackedEntities' =
                     [trackedEntities EXCEPT
                        ![Before].originalData =
                            DataOf(heap, trackedEntities[Before].proxy),
                        ![Before].changedFields = <<>>,
                        ![Before].isNew = FALSE]
               /\ DataOf(heap', trackedEntities'[After].proxy) =
                     DataOf(heap, trackedEntities[Before].proxy)
               /\ ~hasChanges(trackedEntities', ret'.entity, ret'.id)
      ]_vars

\* A reset has moved the baseline: role was not in the payload.
C30_Witness ==
    /\ ret.op = "resetChanges"
    /\ LET i == TrackedIndex(trackedEntities, createKey(ret.entity, ret.id)) IN
       /\ i # 0
       /\ trackedEntities[i].originalData["role"] # Undef
       /\ trackedEntities[i].changedFields = <<>>
       /\ ~trackedEntities[i].isNew
    /\ Len(trackedEntities) = 2

\* C25: a write of a top-level field to the value the wrapped instance gives
\* for it adds nothing to changedFields, and a write of any other value adds
\* the field.
C25_WriteMarksChange ==
    [][ (nested'.tracked /\ nested'.last.op = "set" /\ nested'.last.chain = <<>>) =>
          IF nested'.last.current
          THEN nested'.changedFields = nested.changedFields
          ELSE <<nested'.last.prop>> \in nested'.changedFields
      ]_vars

\* The owner of a nested write: the object or array the access chain reaches.
NestedWrite(last) == last.op \in MutatingMethods \cup {"set", "delete"} /\ last.chain # <<>>

\* C27: a field write or deletion on a nested object or array, and a mutating
\* array method, adds the top-level field that owns the object or array to
\* changedFields.
C27_MarksTopLevelField ==
    [][ (nested'.tracked /\ NestedWrite(nested'.last)) =>
          <<nested'.last.chain[1]>> \in nested'.changedFields
      ]_vars

\* C27, as the code has it: a field write or deletion on a nested object or
\* array, and a mutating array method, adds the dotted access path of that
\* object or array, and nothing else, whatever the value written.
C27_MarksAccessPath ==
    [][ (nested'.tracked /\ NestedWrite(nested'.last)) =>
          nested'.changedFields = nested.changedFields \cup {nested'.last.chain}
      ]_vars

\* metadata.nested.deep.value was written: the path of deep is marked, and
\* metadata is not.
C27_Witness ==
    /\ nested.tracked
    /\ nested.last.op = "set"
    /\ nested.last.chain = <<"metadata", "nested", "deep">>
    /\ <<"metadata", "nested", "deep">> \in nested.changedFields
    /\ <<"metadata">> \notin nested.changedFields

\* C31: an entity that the identity map and the tracker hold under a composite
\* id is returned by get() and marked deleted by delete() when the id is given
\* with its fields in any order.
C31_KeyEquality ==
    [][ \A id \in TenantIds :
          LET i == TrackedIndex(trackedEntities, createKey("TenantUser", TenantKey))
              mapped == Stored(identityMap, "TenantUser", id)
          IN  (isActive /\ i # 0 /\ mapped # NoRef) =>
                 /\ Get("TenantUser", id, FALSE, "a") =>
                       ret'.err = "" /\ ret'.val = mapped
                 /\ Delete("TenantUser", id) =>
                       /\ ret'.err = ""
                       /\ trackedEntities' =
                             [trackedEntities EXCEPT ![i].isDeleted = TRUE]
      ]_vars

\* What the callers of an identity map can see of it: what get() and has()
\* answer for each key, and the two counts of getStats().
Observable(im) ==
    << [e \in EntityIds |-> << Stored(im, e[1], e[2]),
                               IdentityMapHas(im, e[1], e[2]).ok >>],
       Cardinality(im.maps), IdentityMapTotalKeys(im) >>

\* C32: set, get, has and delete with a null or undefined id throw the
\* invalid-id error, and leave what the map answers as it was.
C32_InvalidIdFails ==
    [][ ( /\ ret' # ret
          /\ ret'.op \in {"set", "get", "has", "delete"}
          /\ InvalidId(ret'.id) )
        => /\ ret'.err = InvalidIdError
           /\ Observable(identityMap') = Observable(identityMap)
      ]_vars

\* C33: while the tracker of a Unit of Work holds the instance of a key, the
\* identity map still answers get() for the key with that instance.
C33_HeldInstanceStaysMapped ==
    \A e \in OneId :
       LET i == TrackedIndex(trackedEntities, createKey(e[1], e[2])) IN
       i # 0 => Stored(identityMap, e[1], e[2]) \in
                   {trackedEntities[i].proxy, trackedEntities[i].data}

\* C40: in an identity map made with enableWeakRefs false, after a set() the
\* key is mapped: get() returns what set() returned, has() is true and a
\* second set() returns it too.
C40_StrongMap ==
    [][ ( /\ ret' # ret
          /\ ret'.op = "set"
          /\ ret'.err = ""
          /\ ~identityMap.enableWeakRefs )
        => /\ Stored(identityMap', ret'.entity, ret'.id) = ret'.val
           /\ IdentityMapHas(identityMap', ret'.entity, ret'.id).ok
           /\ \A y \in Refs :
                 IdentityMapSet(identityMap', ret'.entity, ret'.id, y).val = ret'.val
      ]_vars

C35_CloseIsTerminal ==
    [][ ~isActive =>
          /\ ~isActive'
          /\ getChanges(trackedEntities) = <<>>
          /\ getChanges(trackedEntities') = <<>>
          /\ sqlLog' = <<>>
          /\ (ret' # ret /\ ret'.op \in {"get", "create", "delete", "persist"})
                => ret'.err = ClosedError
          /\ CommitCall => (commit'.pc = "rejected" /\ commit'.thrown = ClosedError)
          /\ commit'.pc \in {"idle", "rejected"}
      ]_vars

\* commit() was called on a closed Unit of Work that has a connection and a
\* registered kind.
C35_Witness ==
    /\ ~isActive
    /\ connection
    /\ entityMetadata # {}
    /\ ret.op = "commit"
    /\ commit.pc = "rejected"
    /\ commit.thrown = ClosedError
    /\ sqlLog = <<>>

\* The statements of the log that commit() issued for an entity.
StatementsFor(log, changes, t) ==
    { j \in 1..Len(log) :
        /\ log[j].verb \in {"INSERT", "UPDATE", "DELETE"}
        /\ changes[log[j].change].entity = t.entity
        /\ changes[log[j].change].id = t.id }

\* The statement stores the value in the column.
Stores(stmt, column, value) ==
    \/ /\ stmt.verb = "UPDATE"
       /\ \E m \in 1..Len(stmt.set) :
             stmt.set[m][1] = column /\ stmt.values[stmt.set[m][2]] = value
    \/ /\ stmt.verb = "INSERT"
       /\ \E m \in 1..Len(stmt.columns) :
             stmt.columns[m] = column /\ stmt.values[m] = value

\* C36: when commit() resolves, each change that was pending on a tracked
\* entity (the deletion, the creation, or the value of a changed field that
\* has a column) was written by a statement of the commit, or is still
\* reported by the tracker.
C36_NoLostChange ==
    [][ (commit.pc = "commit" /\ commit'.pc = "resolved") =>
          \A i \in 1..Len(trackedEntities) :
             LET t == trackedEntities[i]
                 k == TrackedIndex(trackedEntities', t.key)
                 issued == StatementsFor(sqlLog', commit.changes, t)
                 columns == MetadataOf(t.entity).columns
             IN  /\ t.isDeleted =>
                       \/ \E j \in issued : sqlLog'[j].verb = "DELETE"
                       \/ IF k = 0 THEN FALSE ELSE trackedEntities'[k].isDeleted
                 /\ (~t.isDeleted /\ t.isNew) =>
                       \/ \E j \in issued : sqlLog'[j].verb = "INSERT"
                       \/ IF k = 0 THEN FALSE ELSE trackedEntities'[k].isNew
                 /\ ~t.isDeleted =>
                       \A f \in Fields(t) :
                          ColumnOf(columns, f) # Undef =>
                             \/ \E j \in issued :
                                   Stores(sqlLog'[j], ColumnOf(columns, f),
                                          DataOf(heap, t.data)[f])
                             \/ IF k = 0 THEN FALSE
                                ELSE f \in Fields(trackedEntities'[k])
      ]_vars

\* The number of statements of a verb in the log.
Issued(log, verb) == Cardinality({ j \in 1..Len(log) : log[j].verb = verb })

\* C37: the counts of a commit() that resolves are the numbers of INSERT,
\* UPDATE and DELETE statements it issued, and an entity of type updated for
\* which it issued no UPDATE keeps its changed fields.
C37_CountsAreStatements ==
    /\ [](commit.pc = "resolved" =>
             /\ commit.created = Issued(sqlLog, "INSERT")
             /\ commit.updated = Issued(sqlLog, "UPDATE")
             /\ commit.deleted = Issued(sqlLog, "DELETE"))
    /\ [][ (commit.pc = "commit" /\ commit'.pc = "resolved") =>
             \A n \in 1..Len(commit.changes) :
                LET ch == commit.changes[n]
                    i == TrackedIndex(trackedEntities, createKey(ch.entity, ch.id))
                    k == TrackedIndex(trackedEntities', createKey(ch.entity, ch.id))
                IN  ( /\ ch.type = "updated"
                      /\ i # 0
                      /\ \A j \in 1..Len(sqlLog') : sqlLog'[j].change # n )
                    => IF k = 0 THEN FALSE
                       ELSE trackedEntities'[k].changedFields =
                               trackedEntities[i].changedFields
         ]_vars

\* A withTransaction() call that has not settled, and one whose transaction
\* is no longer in activeTransactions.
Running(call) == call.pc \in {"begin", "fn", "commit", "rollback"}
Orphan(active, call) == Running(call) /\ TxIndex(active, call.tx) = 0

Commits(before, after) ==
    /\ after.log # before.log
    /\ after.log[Len(after.log)].verb \in {"COMMIT", "RELEASE SAVEPOINT"}

\* A call whose transaction is gone sends no COMMIT and no RELEASE SAVEPOINT,
\* does not resolve, and does not get its transaction back; its commit step
\* fails with "No active transaction found".
OrphanNeverCommits ==
    \A c \in CallIds :
       Orphan(activeTransactions, calls[c]) =>
          \/ calls'[c] = calls[c]
          \/ /\ ~Commits(calls[c], calls'[c])
             /\ calls'[c].pc \in {"begin", "fn", "commit", "rollback", "rejected"}
             /\ calls'[c].tx = calls[c].tx
             /\ TxIndex(activeTransactions', calls[c].tx) = 0
             /\ calls[c].pc = "commit" =>
                   /\ calls'[c].pc = "rollback"
                   /\ calls'[c].error = "No active transaction found"

SessionSavepoints == [j \in 1..Len(session.stack) |-> session.stack[j].name]

\* C39: the savepoint list of a transaction equals the stack of savepoints
\* that exist in the database session, whenever no savepoint statement is
\* awaiting its answer.
C39_ListIsSessionStack ==
    \A i \in 1..Len(activeTransactions) :
       savepointCall.pc # "query" =>
          activeTransactions[i].savepoints = SessionSavepoints

====
